---------------------------- MODULE Spec2Model ----------------------------
(***************************************************************************)
(* Model of the feishu-map repository:                                     *)
(*   - the customer-data endpoint (GET): token call, paged listing,        *)
(*     transformRecord over every fetched raw record, response assembly;   *)
(*   - the CustomerMap client component: data load and the filter effect   *)
(*     that recomputes filteredCustomers from customers + FilterState.     *)
(*                                                                         *)
(* JavaScript values are modelled as tagged records [t, v]; every string   *)
(* (field names included) is a sequence of characters, so that trim,       *)
(* toLowerCase, includes, split, String(), parseFloat and the coordinate   *)
(* regular expression are computed character by character.  An ASCII       *)
(* character is written as itself; any other character is written as its   *)
(* code point, "u95e8" for U+95E8.                                         *)
(* Numbers are exact decimals [m, e] standing for m / 10^e (normalised:    *)
(* e = 0 or m not a multiple of 10).                                       *)
(***************************************************************************)
EXTENDS Integers, Sequences, FiniteSets, TLC

VARIABLES
    \* ---- transformRecord applied to one raw record (pure-function runs)
    tRecord, tIndex, tOut,
    \* ---- customer-data endpoint GET
    pc, env, debugFlag, pageToken, listCalls, records, i, srvCustomers, failed, resp,
    \* the calls made to the upstream so far, each with its answer (history)
    calls,
    \* ---- CustomerMap client component
    loading, customers, filteredCustomers, searchQuery, regionFilter, brandFilter,
    \* the map and the marker objects attached to it (markersRef)
    mapReady, markers, markerBatch,
    \* the AI analysis dialog and its requests
    feishuStatus, feishuError, aiOpen, aiStatus, aiText, aiError, aiMeta,
    abortControllerRef, requests, timers,
    \* ---- analysis endpoint POST: the tabulation of one request body
    postBody, postOut

tvars == <<tRecord, tIndex, tOut>>
svars == <<pc, env, debugFlag, pageToken, listCalls, records, i, srvCustomers, failed, resp, calls>>
cvars == <<loading, customers, filteredCustomers, searchQuery, regionFilter, brandFilter>>
mvars == <<mapReady, markers, markerBatch>>
avars == <<feishuStatus, feishuError, aiOpen, aiStatus, aiText, aiError, aiMeta,
           abortControllerRef, requests, timers>>
pvars == <<postBody, postOut>>
vars == <<tvars, svars, cvars, mvars, avars, pvars>>

-----------------------------------------------------------------------------
(* Bounds of the model                                                     *)

\* how many listing calls the modelled upstream may answer
MaxPages == 2
\* how many items one listing page may carry
MaxPageItems == 1
\* largest index handed to transformRecord in the pure-function runs
MaxIndex == 1
\* how many customers a loaded response may carry
MaxCustomers == 2

-----------------------------------------------------------------------------
(* Program constants                                                       *)

\* latitude-plausible range, route.ts line 334
LatMin == 18
LatMax == 54
\* longitude-plausible range, route.ts line 334
LngMin == 73
LngMax == 135

-----------------------------------------------------------------------------
(* JavaScript values                                                       *)

Undef == [t |-> "undefined", v |-> <<>>]
Null == [t |-> "null", v |-> <<>>]
Str(s) == [t |-> "string", v |-> s]
Num(m, e) == [t |-> "number", v |-> [m |-> m, e |-> e]]
IntNum(n) == Num(n, 0)
Bool(b) == [t |-> "boolean", v |-> b]
Arr(a) == [t |-> "array", v |-> a]
\* an object is the ordered list of its own properties (insertion order, as
\* Object.keys reports it): a sequence of [k |-> name, x |-> value]
Obj(o) == [t |-> "object", v |-> o]
P(k, x) == [k |-> k, x |-> x]

Nullish(x) == x.t \in {"undefined", "null"}

\* ToBoolean: what `!x`, `x || y`, `x && y`, `if (x)` test
Truthy(x) ==
    CASE x.t = "undefined" -> FALSE
      [] x.t = "null" -> FALSE
      [] x.t = "string" -> x.v # <<>>
      [] x.t = "number" -> x.v.m # 0
      [] x.t = "boolean" -> x.v
      [] OTHER -> TRUE

\* a || b
OrElse(a, b) == IF Truthy(a) THEN a ELSE b

RECURSIVE Lookup(_, _)
Lookup(props, k) ==
    IF props = <<>> THEN Undef
    ELSE IF props[1].k = k THEN props[1].x
    ELSE Lookup(Tail(props), k)

\* x[k] / x.k for a string key on a value that is neither null nor undefined
Get(x, k) == IF x.t = "object" THEN Lookup(x.v, k) ELSE Undef

\* x?.k
OptGet(x, k) == IF Nullish(x) THEN Undef ELSE Get(x, k)

\* x?.[0]
OptIndex0(x) ==
    CASE x.t = "array" -> IF Len(x.v) > 0 THEN x.v[1] ELSE Undef
      [] x.t = "string" -> IF Len(x.v) > 0 THEN Str(<<x.v[1]>>) ELSE Undef
      [] x.t = "object" -> Lookup(x.v, <<"0">>)
      [] OTHER -> Undef

\* Object.keys(x)
ObjectKeys(x) == IF x.t = "object" THEN [j \in 1..Len(x.v) |-> x.v[j].k] ELSE <<>>

-----------------------------------------------------------------------------
(* Property names read by the code                                         *)

K_text == <<"t", "e", "x", "t">>
K_name == <<"n", "a", "m", "e">>
K_fields == <<"f", "i", "e", "l", "d", "s">>
K_record_id == <<"r", "e", "c", "o", "r", "d", "_", "i", "d">>
K_id == <<"i", "d">>
K_recordId == <<"r", "e", "c", "o", "r", "d", "I", "d">>
K_locations == <<"l", "o", "c", "a", "t", "i", "o", "n", "s">>
K_poiInfo == <<"p", "o", "i", "I", "n", "f", "o">>
K_location == <<"l", "o", "c", "a", "t", "i", "o", "n">>
K_fullAddress == <<"f", "u", "l", "l", "A", "d", "d", "r", "e", "s", "s">>
K_full_address == <<"f", "u", "l", "l", "_", "a", "d", "d", "r", "e", "s", "s">>
K_address == <<"a", "d", "d", "r", "e", "s", "s">>
K_lng == <<"l", "n", "g">>
K_lat == <<"l", "a", "t">>
K_longitude == <<"l", "o", "n", "g", "i", "t", "u", "d", "e">>
K_latitude == <<"l", "a", "t", "i", "t", "u", "d", "e">>
K_province == <<"p", "r", "o", "v", "i", "n", "c", "e">>
\* 门店, 客户企业名称, 门店定位, 竞品产品, 竞品品牌, 折扣/价格, 经销商, 片区
K_store == <<"u95e8", "u5e97">>
K_company == <<"u5ba2", "u6237", "u4f01", "u4e1a", "u540d", "u79f0">>
K_storeLocation == <<"u95e8", "u5e97", "u5b9a", "u4f4d">>
K_product == <<"u7ade", "u54c1", "u4ea7", "u54c1">>
K_brand == <<"u7ade", "u54c1", "u54c1", "u724c">>
K_discount == <<"u6298", "u6263", "/", "u4ef7", "u683c">>
K_distributor == <<"u7ecf", "u9500", "u5546">>
K_district == <<"u7247", "u533a">>
\* 纬度, 经度
K_weidu == <<"u7eac", "u5ea6">>
K_jingdu == <<"u7ecf", "u5ea6">>
\* the "未知" sentinel of an absent product name
TxtUnknown == <<"u672a", "u77e5">>
TxtCustomerDash == <<"c", "u", "s", "t", "o", "m", "e", "r", "-">>

-----------------------------------------------------------------------------
(* Text                                                                    *)

Digits == <<"0", "1", "2", "3", "4", "5", "6", "7", "8", "9">>
IsDigit(c) == \E d \in 1..10 : Digits[d] = c
DigitVal(c) == (CHOOSE d \in 1..10 : Digits[d] = c) - 1
\* the white space of String.prototype.trim and of \s that the inputs use
IsSpace(c) == c \in {" ", "\t", "\n"}

RECURSIVE TrimStart(_)
TrimStart(s) == IF s # <<>> /\ IsSpace(s[1]) THEN TrimStart(Tail(s)) ELSE s

RECURSIVE TrimEnd(_)
TrimEnd(s) ==
    IF s # <<>> /\ IsSpace(s[Len(s)]) THEN TrimEnd(SubSeq(s, 1, Len(s) - 1)) ELSE s

\* String.prototype.trim
Trim(s) == TrimEnd(TrimStart(s))

RECURSIVE NatToText(_)
NatToText(n) ==
    IF n < 10 THEN <<Digits[n + 1]>>
    ELSE NatToText(n \div 10) \o <<Digits[(n % 10) + 1]>>

RECURSIVE Pow10(_)
Pow10(e) == IF e = 0 THEN 1 ELSE 10 * Pow10(e - 1)

RECURSIVE PadFrac(_, _)
\* the e fraction digits of a decimal, leading zeros kept
PadFrac(f, e) ==
    IF e = 0 THEN <<>> ELSE PadFrac(f \div 10, e - 1) \o <<Digits[(f % 10) + 1]>>

\* Number::toString of the decimal m / 10^e; a whole number too large for m
\* is written m * 10^k with e = -k (1700000000000 is m = 17, e = -11)
NumToText(d) ==
    LET a == IF d.m < 0 THEN 0 - d.m ELSE d.m
        whole == IF d.e < 0
                 THEN NatToText(a) \o (IF a = 0 THEN <<>> ELSE [j \in 1..(0 - d.e) |-> "0"])
                 ELSE NatToText(a \div Pow10(d.e))
        frac == IF d.e <= 0 THEN <<>> ELSE <<".">> \o PadFrac(a % Pow10(d.e), d.e)
    IN (IF d.m < 0 THEN <<"-">> ELSE <<>>) \o whole \o frac

RECURSIVE Normalise(_)
\* drop trailing zeros of the fraction: 35.50 is the number 35.5
Normalise(d) ==
    IF d.e > 0 /\ d.m % 10 = 0 THEN Normalise([m |-> d.m \div 10, e |-> d.e - 1]) ELSE d


RECURSIVE DigitRunEnd(_, _)
\* index of the last character of the run of digits of s that starts at p
\* (p - 1 when s[p] is no digit)
DigitRunEnd(s, p) ==
    IF p <= Len(s) /\ IsDigit(s[p]) THEN DigitRunEnd(s, p + 1) ELSE p - 1

RECURSIVE DigitsValue(_)
DigitsValue(ds) ==
    IF ds = <<>> THEN 0
    ELSE 10 * DigitsValue(SubSeq(ds, 1, Len(ds) - 1)) + DigitVal(ds[Len(ds)])

\* parseFloat: leading white space skipped, then the longest prefix
\* [+-] digits [. digits] or [+-] . digits; NaN (ok = FALSE) when there is none.
\* (No input of the model carries an exponent part or the word Infinity.)
ParseFloat(s) ==
    LET u == TrimStart(s)
        neg == u # <<>> /\ u[1] = "-"
        p == IF u # <<>> /\ u[1] \in {"-", "+"} THEN 2 ELSE 1
        q1 == DigitRunEnd(u, p)
        hasDot == q1 + 1 <= Len(u) /\ u[q1 + 1] = "."
        q2 == IF hasDot THEN DigitRunEnd(u, q1 + 2) ELSE q1
        whole == SubSeq(u, p, q1)
        frac == IF hasDot THEN SubSeq(u, q1 + 2, q2) ELSE <<>>
        mag == DigitsValue(whole \o frac)
    IN IF whole = <<>> /\ frac = <<>>
       THEN [ok |-> FALSE, d |-> [m |-> 0, e |-> 0]]
       ELSE [ok |-> TRUE,
             d |-> Normalise([m |-> IF neg THEN 0 - mag ELSE mag, e |-> Len(frac)])]

\* Number.isFinite of a parseFloat result
IsFinite(r) == r.ok

\* x >= k and x <= k for a decimal x and an integer k
DecGe(d, k) == d.m >= k * Pow10(d.e)
DecLe(d, k) == d.m <= k * Pow10(d.e)

RECURSIVE Join(_, _)
\* Array.prototype.join of a sequence of texts
Join(texts, sep) ==
    IF texts = <<>> THEN <<>>
    ELSE IF Len(texts) = 1 THEN texts[1]
    ELSE texts[1] \o sep \o Join(Tail(texts), sep)

TxtUndefined == <<"u", "n", "d", "e", "f", "i", "n", "e", "d">>
TxtNull == <<"n", "u", "l", "l">>
TxtTrue == <<"t", "r", "u", "e">>
TxtFalse == <<"f", "a", "l", "s", "e">>
TxtObject == <<"[", "o", "b", "j", "e", "c", "t", " ", "O", "b", "j", "e", "c", "t", "]">>

RECURSIVE JSString(_)
\* String(x), which is also what a template literal `${x}` inserts
JSString(x) ==
    CASE x.t = "undefined" -> TxtUndefined
      [] x.t = "null" -> TxtNull
      [] x.t = "string" -> x.v
      [] x.t = "number" -> NumToText(x.v)
      [] x.t = "boolean" -> IF x.v THEN TxtTrue ELSE TxtFalse
      [] x.t = "array" ->
            Join([j \in 1..Len(x.v) |->
                     IF Nullish(x.v[j]) THEN <<>> ELSE JSString(x.v[j])], <<",">>)
      [] OTHER -> TxtObject

\* typeof x === "string"
IsString(x) == x.t = "string"

RECURSIVE DropEmpty(_)
\* .filter(Boolean) on a list of texts
DropEmpty(texts) ==
    IF texts = <<>> THEN <<>>
    ELSE IF texts[1] = <<>> THEN DropEmpty(Tail(texts))
    ELSE <<texts[1]>> \o DropEmpty(Tail(texts))

\* readAsText (route.ts 273-285): the text of a field of any shape
readAsText(val) ==
    CASE val.t = "string" -> val.v
      [] val.t = "number" -> NumToText(val.v)
      [] val.t = "array" ->
            Join(DropEmpty([j \in 1..Len(val.v) |->
                     IF Truthy(val.v[j]) /\ IsString(Get(val.v[j], K_text))
                     THEN Get(val.v[j], K_text).v
                     ELSE JSString(val.v[j])]), <<" ">>)
      [] val.t = "object" ->
            IF IsString(Get(val, K_name))
            THEN Get(val, K_name).v
            ELSE IF IsString(Get(val, K_text))
            THEN Get(val, K_text).v
            ELSE <<>>
      [] OTHER -> <<>>

-----------------------------------------------------------------------------
(* Regular expressions of transformRecord                                  *)

UpperLetters ==
    <<"A", "B", "C", "D", "E", "F", "G", "H", "I", "J", "K", "L", "M",
      "N", "O", "P", "Q", "R", "S", "T", "U", "V", "W", "X", "Y", "Z">>
LowerLetters ==
    <<"a", "b", "c", "d", "e", "f", "g", "h", "i", "j", "k", "l", "m",
      "n", "o", "p", "q", "r", "s", "t", "u", "v", "w", "x", "y", "z">>

\* the lower-case form of each letter A-Z
LowerOf ==
    [u \in {UpperLetters[j] : j \in 1..Len(UpperLetters)} |->
        LowerLetters[CHOOSE j \in 1..Len(UpperLetters) : UpperLetters[j] = u]]

\* toLowerCase of one character (every other character of the model's texts
\* has no lower-case form of its own)
LowerChar(c) == IF c \in DOMAIN LowerOf THEN LowerOf[c] ELSE c

\* String.prototype.toLowerCase
ToLower(s) == [j \in 1..Len(s) |-> LowerChar(s[j])]

\* String.prototype.includes
Includes(s, sub) ==
    \E p \in 1..(Len(s) + 1) :
        p + Len(sub) - 1 <= Len(s) /\ SubSeq(s, p, p + Len(sub) - 1) = sub

\* /纬度|latitude|lat/i.test(k)
IsLatKey(k) ==
    Includes(k, K_weidu) \/ Includes(ToLower(k), K_latitude) \/ Includes(ToLower(k), K_lat)

\* /经度|longitude|lng/i.test(k)
IsLngKey(k) ==
    Includes(k, K_jingdu) \/ Includes(ToLower(k), K_longitude) \/ Includes(ToLower(k), K_lng)

\* keys.find(pred): the first key that passes, as a JS value (undefined if none)
FindLatKey(keys) ==
    IF \E j \in 1..Len(keys) : IsLatKey(keys[j])
    THEN Str(keys[CHOOSE j \in 1..Len(keys) :
                 IsLatKey(keys[j]) /\ \A h \in 1..(j - 1) : ~IsLatKey(keys[h])])
    ELSE Undef

FindLngKey(keys) ==
    IF \E j \in 1..Len(keys) : IsLngKey(keys[j])
    THEN Str(keys[CHOOSE j \in 1..Len(keys) :
                 IsLngKey(keys[j]) /\ \A h \in 1..(j - 1) : ~IsLngKey(keys[h])])
    ELSE Undef

\* [,，\s]
IsCoordSep(c) == c \in {",", "uff0c"} \/ IsSpace(c)

RECURSIVE SepRunEnd(_, _)
SepRunEnd(s, p) ==
    IF p <= Len(s) /\ IsCoordSep(s[p]) THEN SepRunEnd(s, p + 1) ELSE p - 1

\* -?\d+\.?\d* tried at position p: index of its last character, every
\* quantifier greedy; p - 1 when it does not match there
NumeralEnd(s, p) ==
    LET p1 == IF p <= Len(s) /\ s[p] = "-" THEN p + 1 ELSE p
        q1 == DigitRunEnd(s, p1)
        q2 == IF q1 + 1 <= Len(s) /\ s[q1 + 1] = "." THEN q1 + 1 ELSE q1
    IN IF q1 < p1 THEN p - 1 ELSE DigitRunEnd(s, q2 + 1)

\* /(-?\d+\.?\d*)[,，\s]+(-?\d+\.?\d*)/ tried at position p.  Giving back
\* characters of a greedy run never helps (the character given back is a digit,
\* a dot or a separator, which the next part of the pattern cannot start with),
\* so the greedy attempt decides the attempt at p.
MatchAt(s, p) ==
    LET e1 == NumeralEnd(s, p)
        r == SepRunEnd(s, e1 + 1)
        e2 == NumeralEnd(s, r + 1)
    IN IF e1 >= p /\ r >= e1 + 1 /\ e2 >= r + 1
       THEN [ok |-> TRUE, g1 |-> SubSeq(s, p, e1), g2 |-> SubSeq(s, r + 1, e2)]
       ELSE [ok |-> FALSE, g1 |-> <<>>, g2 |-> <<>>]

\* String(coordsRaw).match(...): the leftmost match (route.ts 327)
CoordMatch(s) ==
    IF \E p \in 1..Len(s) : MatchAt(s, p).ok
    THEN MatchAt(s, CHOOSE p \in 1..Len(s) :
                        MatchAt(s, p).ok /\ \A h \in 1..(p - 1) : ~MatchAt(s, h).ok)
    ELSE [ok |-> FALSE, g1 |-> <<>>, g2 |-> <<>>]

-----------------------------------------------------------------------------
(* transformRecord (route.ts 269-397)                                      *)

\* the rejection reasons, by the line that returns them:
\*   "NoName"       290  缺少门店名称
\*   "NoCoordField" 325  缺少定位字段或定位字段格式不支持
\*   "Unparseable"  328  无法解析坐标: <coordsRaw>
\*   "NotANumber"   340  解析后坐标不是数字: <coordsRaw>
NoReason == [kind |-> "none", arg |-> <<>>]
Reject(kind, arg) ==
    [tag |-> "return", result |-> Null, reason |-> [kind |-> kind, arg |-> arg]]
Accept(result) == [tag |-> "return", result |-> result, reason |-> NoReason]
\* `record.fields` on a null or undefined record: a TypeError leaves the function
Thrown == [tag |-> "throw", result |-> Null, reason |-> NoReason]

\* `${x},${y}`
PairText(x, y) == Str(JSString(x) \o <<",">> \o JSString(y))

\* variant of ResolveName: a placeholder name when neither column has one
ResolveNameOrUnknown(fields) ==
    LET n == readAsText(OrElse(OrElse(Get(fields, K_store), Get(fields, K_company)), Str(<<>>)))
    IN IF n # <<>> THEN n ELSE TxtUnknown

\* lines 287-289: the name that transformRecord resolves
ResolveName(fields) ==
    readAsText(OrElse(OrElse(Get(fields, K_store), Get(fields, K_company)), Str(<<>>)))

\* line 296
PoiOf(shopLoc) ==
    OrElse(OptGet(OptIndex0(OptGet(shopLoc, K_locations)), K_poiInfo), Null)

\* typeof x === "object" for a truthy x
IsObjectLike(x) == x.t \in {"object", "array"}

\* lines 297-300, coordsRaw part
CoordsFromPoi(poi) ==
    IF Truthy(poi) /\ IsObjectLike(poi)
       /\ IsString(Get(poi, K_location)) /\ Trim(Get(poi, K_location).v) # <<>>
    THEN Get(poi, K_location)
    ELSE Undef

\* lines 297-300, address part
AddressFromPoi(poi) ==
    IF Truthy(poi) /\ IsObjectLike(poi)
    THEN OrElse(OrElse(OrElse(Get(poi, K_fullAddress), Get(poi, K_full_address)),
                       Get(poi, K_address)), Str(<<>>))
    ELSE Str(<<>>)

\* lines 303-309: the location field itself
CoordsFromShopLoc(shopLoc) ==
    IF shopLoc.t = "string" THEN shopLoc
    ELSE IF shopLoc.t = "array" /\ Len(shopLoc.v) = 2 /\ shopLoc.v[1].t = "number"
    THEN PairText(shopLoc.v[1], shopLoc.v[2])
    ELSE IF Truthy(Get(shopLoc, K_location)) THEN Get(shopLoc, K_location)
    ELSE IF Truthy(Get(shopLoc, K_lng)) /\ Truthy(Get(shopLoc, K_lat))
    THEN PairText(Get(shopLoc, K_lng), Get(shopLoc, K_lat))
    ELSE IF Truthy(Get(shopLoc, K_longitude)) /\ Truthy(Get(shopLoc, K_latitude))
    THEN PairText(Get(shopLoc, K_longitude), Get(shopLoc, K_latitude))
    ELSE Undef

\* lines 312-323: latitude / longitude named columns
CoordsFromColumns(fields) ==
    LET keys == ObjectKeys(fields)
        latKey == FindLatKey(keys)
        lngKey == FindLngKey(keys)
        latNum == ParseFloat(readAsText(Get(fields, latKey.v)))
        lngNum == ParseFloat(readAsText(Get(fields, lngKey.v)))
    IN IF Truthy(latKey) /\ Truthy(lngKey) /\ IsFinite(latNum) /\ IsFinite(lngNum)
       THEN Str(NumToText(lngNum.d) \o <<",">> \o NumToText(latNum.d))
       ELSE Undef

\* a resolution that looks at the latitude / longitude columns first
ResolveCoordsColumnsFirst(fields) ==
    LET shopLoc == Get(fields, K_storeLocation)
        c3 == CoordsFromColumns(fields)
        c1 == IF ~Truthy(c3) THEN CoordsFromPoi(PoiOf(shopLoc)) ELSE c3
    IN IF ~Truthy(c1) /\ Truthy(shopLoc) THEN CoordsFromShopLoc(shopLoc) ELSE c1

\* lines 293-323: coordsRaw when line 325 is reached
ResolveCoordsRaw(fields) ==
    LET shopLoc == Get(fields, K_storeLocation)
        c1 == CoordsFromPoi(PoiOf(shopLoc))
        c2 == IF ~Truthy(c1) /\ Truthy(shopLoc) THEN CoordsFromShopLoc(shopLoc) ELSE c1
    IN IF ~Truthy(c2) THEN CoordsFromColumns(fields) ELSE c2

\* variant of Disambiguate: the pair is always read as (lng, lat)
DisambiguateNoSwap(a, b) == [lng |-> a, lat |-> b]

\* variant of Disambiguate: the pair is always read as (lat, lng)
DisambiguateAlwaysSwap(a, b) == [lng |-> b, lat |-> a]

\* lines 330-338: which of the two parsed numbers is the longitude
Disambiguate(a, b) ==
    IF DecGe(a, LatMin) /\ DecLe(a, LatMax) /\ DecGe(b, LngMin) /\ DecLe(b, LngMax)
    THEN [lng |-> b, lat |-> a]
    ELSE IF DecGe(a, LngMin) /\ DecLe(a, LngMax) /\ DecGe(b, LatMin) /\ DecLe(b, LatMax)
    THEN [lng |-> a, lat |-> b]
    ELSE [lng |-> a, lat |-> b]

\* readAsText(fields[k]) || dflt
TextOr(fields, k, dflt) ==
    IF readAsText(Get(fields, k)) # <<>> THEN readAsText(Get(fields, k)) ELSE dflt

\* line 380
RecIdOf(record, index) ==
    OrElse(OrElse(OrElse(Get(record, K_record_id), Get(record, K_id)),
                  Get(record, K_recordId)),
           Str(TxtCustomerDash \o NatToText(index)))

\* line 270, for a record that is neither null nor undefined
FieldsOf(record) == OrElse(Get(record, K_fields), Obj(<<>>))

\* variant of NameMissing: the name is never tested
NameMissingNever(name) == FALSE

\* line 290: `!name`
NameMissing(name) == name = <<>>

\* line 325: `!coordsRaw`
CoordsMissing(coordsRaw) == ~Truthy(coordsRaw)

-----------------------------------------------------------------------------
(* record_date and formatDate (route.ts 353-377)                            *)

\* 记录日期
K_recordDate == <<"u8bb0", "u5f55", "u65e5", "u671f">>

\* The numbers of the date computation are kept exact as
\*   sign * (hi * 10^6 + lo + milli / 1000),   0 <= lo < 10^6, 0 <= milli < 1000,
\* so that epoch milliseconds fit; kind "nan" is NaN and kind "huge" a finite
\* number of 17 digits or more, which is beyond every valid Date (8.64e15).
\* No input of the model has exactly 16 digits or a fraction finer than 1/1000.
BigNum(neg, hi, lo, milli) == [kind |-> "num", neg |-> neg, hi |-> hi, lo |-> lo, milli |-> milli]
BigNaN == [kind |-> "nan", neg |-> FALSE, hi |-> 0, lo |-> 0, milli |-> 0]
BigHuge(neg) == [kind |-> "huge", neg |-> neg, hi |-> 0, lo |-> 0, milli |-> 0]

RECURSIVE StripZeros(_)
StripZeros(ds) == IF ds # <<>> /\ ds[1] = "0" THEN StripZeros(Tail(ds)) ELSE ds

\* the number written [-] whole [. frac]
DigitsToBig(neg, whole, frac) ==
    LET w == StripZeros(whole)
        f == SubSeq(frac \o <<"0", "0", "0">>, 1, 3)
    IN IF Len(w) > 15 THEN BigHuge(neg)
       ELSE BigNum(neg,
                   IF Len(w) > 6 THEN DigitsValue(SubSeq(w, 1, Len(w) - 6)) ELSE 0,
                   IF Len(w) > 6 THEN DigitsValue(SubSeq(w, Len(w) - 5, Len(w))) ELSE DigitsValue(w),
                   DigitsValue(f))

\* StringToNumber: the whole trimmed text must be a decimal literal; the empty
\* text is 0. (No input of the model is written in hex or with an exponent.)
StringToNumber(s) ==
    LET u == Trim(s)
        neg == u # <<>> /\ u[1] = "-"
        p == IF u # <<>> /\ u[1] \in {"-", "+"} THEN 2 ELSE 1
        q1 == DigitRunEnd(u, p)
        hasDot == q1 + 1 <= Len(u) /\ u[q1 + 1] = "."
        q2 == IF hasDot THEN DigitRunEnd(u, q1 + 2) ELSE q1
        whole == SubSeq(u, p, q1)
        frac == IF hasDot THEN SubSeq(u, q1 + 2, q2) ELSE <<>>
    IN IF u = <<>> THEN BigNum(FALSE, 0, 0, 0)
       ELSE IF (whole = <<>> /\ frac = <<>>) \/ q2 # Len(u) THEN BigNaN
       ELSE DigitsToBig(neg, whole, frac)

\* Number(x)
ToNumber(x) ==
    CASE x.t = "number" -> StringToNumber(NumToText(x.v))
      [] x.t = "string" -> StringToNumber(x.v)
      [] x.t = "boolean" -> BigNum(FALSE, 0, IF x.v THEN 1 ELSE 0, 0)
      [] x.t = "null" -> BigNum(FALSE, 0, 0, 0)
      [] x.t = "array" -> StringToNumber(JSString(x))
      [] OTHER -> BigNaN

\* ToBoolean of a number
BigTruthy(n) == n.kind = "huge" \/ (n.kind = "num" /\ (n.hi # 0 \/ n.lo # 0 \/ n.milli # 0))

\* parseInt(s, 10): leading white space, a sign, then the longest run of digits
ParseInt(s) ==
    LET u == TrimStart(s)
        neg == u # <<>> /\ u[1] = "-"
        p == IF u # <<>> /\ u[1] \in {"-", "+"} THEN 2 ELSE 1
        q == DigitRunEnd(u, p)
    IN IF q < p THEN BigNaN ELSE DigitsToBig(neg, SubSeq(u, p, q), <<>>)

\* the value of record_date: null, a number or a string
DateNull == [t |-> "null", n |-> BigNaN, s |-> <<>>]
DateNumber(n) == [t |-> "number", n |-> n, s |-> <<>>]
DateString(s) == [t |-> "string", n |-> BigNaN, s |-> s]

\* lines 354-357
RecordDateOf(fields) ==
    LET rd == Get(fields, K_recordDate)
    IN IF rd.t = "array" /\ Len(rd.v) > 0 THEN DateNumber(ToNumber(rd.v[1]))
       ELSE IF ~Nullish(rd)
       THEN IF BigTruthy(ToNumber(rd)) THEN DateNumber(ToNumber(rd)) ELSE DateString(JSString(rd))
       ELSE DateNull

\* Number.isFinite(n)
BigIsFinite(n) == n.kind # "nan"

\* variant of IsSecondsScale: the threshold one digit too high
IsSecondsScaleE12(n) == n.neg \/ (n.kind = "num" /\ n.hi < 1000000)

\* line 364: n < 1e11
IsSecondsScale(n) == n.neg \/ (n.kind = "num" /\ n.hi < 100000)

\* line 364: n * 1000, for a seconds-scale n
TimesThousand(n) ==
    IF n.kind # "num" THEN n
    ELSE BigNum(n.neg, n.hi * 1000 + ((n.lo * 1000 + n.milli) \div Pow10(6)),
                (n.lo * 1000 + n.milli) % Pow10(6), 0)

\* !isNaN(new Date(ms).getTime())
ValidInstant(ms) == ms.kind = "num"

\* the day of the instant ms, counted from 1970-01-01 (the fraction of a
\* millisecond is cut off towards zero first)
DaysOf(ms) ==
    LET whole == (ms.hi \div 864) * 10 + (((ms.hi % 864) * Pow10(6) + ms.lo) \div 86400000)
        rest == ((ms.hi % 864) * Pow10(6) + ms.lo) % 86400000
    IN IF ~ms.neg THEN whole
       ELSE IF rest = 0 THEN 0 - whole ELSE 0 - whole - 1

\* the proleptic Gregorian date of a day number
CivilOf(days) ==
    LET z == days + 719468
        era == z \div 146097
        doe == z - era * 146097
        yoe == (doe - (doe \div 1460) + (doe \div 36524) - (doe \div 146096)) \div 365
        doy == doe - (365 * yoe + (yoe \div 4) - (yoe \div 100))
        mp == (5 * doy + 2) \div 153
        d == doy - ((153 * mp + 2) \div 5) + 1
        m == IF mp < 10 THEN mp + 3 ELSE mp - 9
    IN [y |-> yoe + era * 400 + (IF m <= 2 THEN 1 ELSE 0), m |-> m, d |-> d]

\* the day number of a Gregorian date
DaysFromCivil(y, m, d) ==
    LET yy == IF m <= 2 THEN y - 1 ELSE y
        era == yy \div 400
        yoe == yy - era * 400
        doy == ((153 * (IF m > 2 THEN m - 3 ELSE m + 9) + 2) \div 5) + d - 1
        doe == yoe * 365 + (yoe \div 4) - (yoe \div 100) + doy
    IN era * 146097 + doe - 719468

\* n written with at least w digits
ZeroPad(n, w) ==
    LET t == NatToText(n)
    IN IF Len(t) >= w THEN t ELSE [j \in 1..(w - Len(t)) |-> "0"] \o t

\* d.toISOString().slice(0, 10): YYYY-MM-DD, and the first ten characters of
\* the signed six-digit year form outside the years 0..9999
IsoDate(days) ==
    LET c == CivilOf(days)
        long == (IF c.y < 0 THEN <<"-">> ELSE <<"+">>)
                   \o ZeroPad(IF c.y < 0 THEN 0 - c.y ELSE c.y, 6)
                   \o <<"-">> \o ZeroPad(c.m, 2) \o <<"-">> \o ZeroPad(c.d, 2)
    IN IF c.y >= 0 /\ c.y <= 9999
       THEN ZeroPad(c.y, 4) \o <<"-">> \o ZeroPad(c.m, 2) \o <<"-">> \o ZeroPad(c.d, 2)
       ELSE SubSeq(long, 1, 10)

\* new Date(text) for the date-only form YYYY-MM-DD, which is read as UTC; any
\* other text of the model's inputs is no date in any host
ParseDateText(s) ==
    LET isIso == /\ Len(s) = 10 /\ s[5] = "-" /\ s[8] = "-"
                 /\ \A j \in {1, 2, 3, 4, 6, 7, 9, 10} : IsDigit(s[j])
        y == DigitsValue(SubSeq(s, 1, 4))
        m == DigitsValue(SubSeq(s, 6, 7))
        d == DigitsValue(SubSeq(s, 9, 10))
    IN IF isIso /\ m >= 1 /\ m <= 12 /\ d >= 1
          /\ CivilOf(DaysFromCivil(y, m, d)) = [y |-> y, m |-> m, d |-> d]
       THEN [ok |-> TRUE, days |-> DaysFromCivil(y, m, d)]
       ELSE [ok |-> FALSE, days |-> 0]

\* lines 359-375; the result is null or the date string
formatDate(v) ==
    IF v.t = "null" \/ (v.t = "string" /\ v.s = <<>>) THEN Null
    ELSE
    LET n == IF v.t = "number" THEN v.n ELSE ParseInt(v.s)
        ms == IF IsSecondsScale(n) THEN TimesThousand(n) ELSE n
        d2 == IF v.t = "string" THEN ParseDateText(v.s) ELSE [ok |-> FALSE, days |-> 0]
    IN IF BigIsFinite(n) /\ ValidInstant(ms) THEN Str(IsoDate(DaysOf(ms)))
       ELSE IF d2.ok THEN Str(IsoDate(d2.days))
       ELSE Null

transformRecord(record, index) ==
    IF Nullish(record) THEN Thrown
    ELSE
    LET fields == FieldsOf(record)
        name == ResolveName(fields)
        coordsRaw == ResolveCoordsRaw(fields)
        coordMatch == CoordMatch(JSString(coordsRaw))
        a == ParseFloat(coordMatch.g1)
        b == ParseFloat(coordMatch.g2)
        ll == Disambiguate(a.d, b.d)
    IN IF NameMissing(name) THEN Reject("NoName", <<>>)
       ELSE IF CoordsMissing(coordsRaw) THEN Reject("NoCoordField", <<>>)
       ELSE IF ~coordMatch.ok THEN Reject("Unparseable", JSString(coordsRaw))
       ELSE IF ~IsFinite(a) \/ ~IsFinite(b) THEN Reject("NotANumber", JSString(coordsRaw))
       ELSE Accept([id |-> RecIdOf(record, index),
                    name |-> name,
                    coordinates |-> <<ll.lng, ll.lat>>,
                    productName |-> TextOr(fields, K_product, TxtUnknown),
                    brand |-> TextOr(fields, K_brand, <<>>),
                    discountprice |-> TextOr(fields, K_discount, <<>>),
                    address |-> OrElse(AddressFromPoi(PoiOf(Get(fields, K_storeLocation))),
                                       Str(<<>>)),
                    distributor |-> TextOr(fields, K_distributor, <<>>),
                    region |-> TextOr(fields, K_province, <<>>),
                    record_date |-> formatDate(RecordDateOf(fields)),
                    district |-> TextOr(fields, K_district, <<>>)])

-----------------------------------------------------------------------------
(* Raw records: the JSON values the listing endpoint can deliver as items   *)

\* a JSON object from a property list; a property whose value is undefined is
\* absent from the object
MakeObj(props) == Obj(SelectSeq(props, LAMBDA q : q.x # Undef))

TxtA == <<"S", "h", "o", "p">>
TxtB == <<"C", "o">>
Txt35c113 == <<"3", "5", ",", "1", "1", "3">>
Txt113c35 == <<"1", "1", "3", ",", "3", "5">>

\* values of the 门店 field: absent, empty, text, numbers, rich-text arrays,
\* labelled objects, and the truthy shapes that read as ""
StoreValues ==
    { Undef, Null, Str(<<>>), Str(TxtA), IntNum(0), IntNum(7), Bool(TRUE),
      Arr(<<>>), Arr(<<Obj(<<P(K_text, Str(TxtA))>>)>>),
      Arr(<<Str(TxtA), Null>>),
      Obj(<<>>), Obj(<<P(K_name, Str(TxtA))>>), Obj(<<P(K_text, Str(TxtB))>>) }

\* values of the 客户企业名称 field
CompanyValues == { Undef, Str(TxtB) }

PoiShopLoc(poi) == Obj(<<P(K_locations, Arr(<<Obj(<<P(K_poiInfo, poi)>>)>>))>>)

\* values of the 门店定位 field
ShopLocValues ==
    { Undef, Null, IntNum(5), Bool(TRUE),
      Str(Txt35c113), Str(Txt113c35), Str(<<"a", "b", "c">>), Str(<<"1", ",", "2">>),
      Str(<<"3", "5", ";", "1", "1", "3">>),
      PoiShopLoc(Obj(<<P(K_location, Str(Txt113c35)), P(K_fullAddress, Str(TxtB))>>)),
      PoiShopLoc(Obj(<<P(K_location, Str(<<" ">>)), P(K_address, Str(TxtB))>>)),
      PoiShopLoc(Obj(<<P(K_location, IntNum(5))>>)),
      PoiShopLoc(Null),
      Obj(<<P(K_locations, Arr(<<Obj(<<P(K_poiInfo, Obj(<<P(K_location, Str(Txt113c35))>>))>>)>>)),
            P(K_location, Str(<<"a", "b", "c">>))>>),
      Obj(<<P(K_locations, Arr(<<>>)), P(K_location, Str(Txt35c113))>>),
      Arr(<<Num(1135, 1), IntNum(35)>>),
      Arr(<<Str(<<"1", "1", "3">>), Str(<<"3", "5">>)>>),
      Arr(<<IntNum(113), IntNum(35), IntNum(0)>>),
      Obj(<<P(K_location, Str(<<"3", "5", " ", "1", "1", "3">>))>>),
      Obj(<<P(K_location, IntNum(5))>>),
      Obj(<<P(K_lng, IntNum(113)), P(K_lat, IntNum(35))>>),
      Obj(<<P(K_lng, IntNum(0)), P(K_lat, IntNum(35))>>),
      Obj(<<P(K_longitude, Num(1135, 1)), P(K_latitude, Str(<<"3", "5">>))>>),
      Obj(<<>>) }

\* latitude / longitude named columns: the property lists appended to fields
ColumnValues ==
    { <<>>,
      <<P(K_weidu, Str(<<"3", "5">>)), P(K_jingdu, Str(<<"1", "1", "3">>))>>,
      <<P(<<"L", "a", "t">>, Num(355, 1)), P(<<"L", "N", "G">>, Str(<<" ", "1", "1", "3", "E">>))>>,
      <<P(K_lat, Str(<<"3", "5">>)), P(K_lng, Str(<<"a", "b", "c">>))>>,
      <<P(K_lat, Str(<<"3", "5">>))>>,
      <<P(<<"p", "l", "a", "t", "e">>, Str(<<"7">>)), P(K_lat, Str(<<"3", "5">>)),
        P(K_lng, Str(<<"1", "1", "3">>))>> }

RecordIds == { Undef, Str(<<"r", "e", "c", "1">>) }

RecordOf(rid, store, company, shopLoc, columns) ==
    MakeObj(<<P(K_record_id, rid),
              P(K_fields, MakeObj(<<P(K_store, store), P(K_company, company),
                                    P(K_storeLocation, shopLoc),
                                    P(K_brand, Str(TxtB))>> \o columns))>>)

\* a well-named record whose location field is the given coordinate string
CoordRecord(text) == RecordOf(Undef, Str(TxtA), Undef, Str(text), <<>>)

\* numerals around the borders of the two plausible ranges
\* each numeral with the number it denotes
N(txt, m, e) == [txt |-> txt, val |-> [m |-> m, e |-> e]]
Numerals ==
    { N(<<"1", "8">>, 18, 0), N(<<"5", "4">>, 54, 0),
      N(<<"3", "4", ".", "7", "6">>, 3476, 2), N(<<"5", "4", ".", "0">>, 54, 0),
      N(<<"7", "3">>, 73, 0), N(<<"1", "3", "5">>, 135, 0),
      N(<<"1", "1", "3", ".", "6", "5">>, 11365, 2),
      N(<<"1", "7", ".", "9">>, 179, 1), N(<<"5", "4", ".", "1">>, 541, 1),
      N(<<"7", "2", ".", "9">>, 729, 1), N(<<"1", "3", "5", ".", "1">>, 1351, 1),
      N(<<"-", "3", "5">>, -35, 0), N(<<"0">>, 0, 0), N(<<"6", "0">>, 60, 0) }
\* the coordinate string  <open> a <sep> b <close>
CoordText(a, sep, b, w) == w[1] \o a.txt \o sep \o b.txt \o w[2]
\* separators the pattern accepts between the two numbers
CoordSeps == { <<",">>, <<"uff0c">>, <<" ">>, <<",", " ">> }

\* what may surround the pair in the string: nothing, or brackets
CoordWraps == { <<<<>>, <<>>>>, <<<<"(">>, <<")">>>> }

\* records that are not objects with a fields object
OddRecords ==
    { Null, IntNum(5), Str(TxtA), Arr(<<>>), Obj(<<>>),
      Obj(<<P(K_fields, Null)>>), Obj(<<P(K_fields, Str(TxtA))>>),
      Obj(<<P(K_fields, Arr(<<Str(TxtA)>>))>>),
      Obj(<<P(K_id, IntNum(7)), P(K_fields, Obj(<<P(K_company, Str(TxtB)), P(K_storeLocation, Str(Txt35c113))>>))>>) }

RawRecords ==
    OddRecords
    \cup { RecordOf(rid, st, co, sl, cols) :
             rid \in RecordIds, st \in StoreValues, co \in CompanyValues,
             sl \in ShopLocValues, cols \in ColumnValues }
    \cup { CoordRecord(CoordText(a, sep, b, w)) :
             a \in Numerals, b \in Numerals, sep \in CoordSeps, w \in CoordWraps }

-----------------------------------------------------------------------------
(* transformRecord applied to one raw record                               *)

NotCalled == [tag |-> "none", result |-> Null, reason |-> NoReason]

\* no response sent yet
NoResponse ==
    [status |-> 0, error |-> "none", customers |-> <<>>,
     stats |-> [total |-> 0, totalVolume |-> 0], debug |-> [present |-> FALSE, failed |-> <<>>]]

InitServerIdle ==
    /\ pc = "idle" /\ env = {} /\ debugFlag = FALSE /\ pageToken = <<>>
    /\ listCalls = 0 /\ records = <<>> /\ i = 0 /\ srvCustomers = <<>>
    /\ failed = <<>> /\ resp = NoResponse /\ calls = <<>>

\* no POST request tabulated yet
NoTabulation ==
    [called |-> FALSE, brandCount |-> <<>>, productCount |-> <<>>, provinceCount |-> <<>>,
     brands |-> <<>>, products |-> <<>>, provinces |-> <<>>]

InitPostIdle == postBody = <<>> /\ postOut = NoTabulation

\* part_000 lines 83-131: the initial values of the useState and useRef hooks
InitMapIdle == mapReady = FALSE /\ markers = <<>> /\ markerBatch = 0

InitAiIdle ==
    /\ feishuStatus = "idle" /\ feishuError = "" /\ aiOpen = FALSE
    /\ aiStatus = "idle" /\ aiText = 0 /\ aiError = "" /\ aiMeta = 0
    /\ abortControllerRef = 0 /\ requests = <<>> /\ timers = 0

InitClientIdle ==
    /\ loading = TRUE /\ customers = <<>> /\ filteredCustomers = <<>>
    /\ searchQuery = <<>> /\ regionFilter = <<>> /\ brandFilter = <<>>
    /\ InitMapIdle /\ InitAiIdle /\ InitPostIdle

InitTransform ==
    /\ tRecord \in RawRecords
    /\ tIndex \in 0..MaxIndex
    /\ tOut = NotCalled
    /\ InitServerIdle
    /\ InitClientIdle

\* one call transformRecord(record, index)
CallTransform ==
    /\ tOut = NotCalled
    /\ tOut' = transformRecord(tRecord, tIndex)
    /\ UNCHANGED <<tRecord, tIndex, svars, cvars, mvars, avars, pvars>>

NextTransform == CallTransform

SpecTransform == InitTransform /\ [][NextTransform]_vars

-----------------------------------------------------------------------------
(* transformRecord on records that carry a 记录日期 field                    *)

\* a well-formed record (name and coordinates present) with the date field x
DateRecord(x) == RecordOf(Undef, Str(TxtA), Undef, Str(Txt113c35), <<P(K_recordDate, x)>>)

RECURSIVE TrailingZeros(_)
TrailingZeros(ds) ==
    IF ds # <<>> /\ ds[Len(ds)] = "0" THEN 1 + TrailingZeros(SubSeq(ds, 1, Len(ds) - 1)) ELSE 0

\* the whole number written ds, as a JSON number (at most nine significant digits)
WholeNumber(ds) ==
    IF TrailingZeros(ds) = Len(ds) THEN IntNum(0)
    ELSE Num(DigitsValue(SubSeq(ds, 1, Len(ds) - TrailingZeros(ds))), 0 - TrailingZeros(ds))

\* epoch values in seconds: 1e8, 5e8, 951782400 (2000-02-29), 1700000000,
\* 99999999000 and 99999999999 (the last below 1e11), 86400, 0, 1e11
EpochTexts ==
    { <<"1", "0", "0", "0", "0", "0", "0", "0", "0">>,
      <<"5", "0", "0", "0", "0", "0", "0", "0", "0">>,
      <<"9", "5", "1", "7", "8", "2", "4", "0", "0">>,
      <<"1", "7", "0", "0", "0", "0", "0", "0", "0", "0">>,
      <<"9", "9", "9", "9", "9", "9", "9", "9", "0", "0", "0">>,
      <<"9", "9", "9", "9", "9", "9", "9", "9", "9", "9", "9">>,
      <<"8", "6", "4", "0", "0">>,
      <<"0">>,
      <<"1", "0", "0", "0", "0", "0", "0", "0", "0", "0", "0", "0">> }

\* the same values and their thousandfold, the milliseconds reading
EpochDigits == EpochTexts \cup { ds \o <<"0", "0", "0">> : ds \in EpochTexts }

Txt2024Jan15 == <<"2", "0", "2", "4", "-", "0", "1", "-", "1", "5">>

\* what the 记录日期 field may hold: a number, its text, a one-item array of
\* either, date-like and other text, and the non-date shapes
DateValues ==
    { Str(ds) : ds \in EpochDigits }
    \cup { WholeNumber(ds) : ds \in { x \in EpochDigits : Len(x) - TrailingZeros(x) <= 9 } }
    \cup { Arr(<<Str(ds)>>) : ds \in EpochDigits }
    \cup { Undef, Null, Str(<<>>), Str(<<" ">>), Str(Txt2024Jan15),
           Str(<<" ">> \o Txt2024Jan15), Arr(<<Str(Txt2024Jan15)>>),
           Str(<<"a", "b", "c">>), Str(<<"-", "1">>), IntNum(-1), Num(15, 1),
           Str(<<"1", "7", "0", "0", "0", "0", "0", "0", "0", "0", ".", "5">>),
           Str(<<" ", "1", "7", "0", "0", "0", "0", "0", "0", "0", "0", " ">>),
           Str(<<"1", "7", "0", "0", "0", "0", "0", "0", "0", "0", "x">>),
           Str(<<"1", "2", "3", "4", "5", "6", "7", "8", "9", "0", "1", "2", "3", "4", "5", "6", "7", "8">>),
           Bool(TRUE), Bool(FALSE), Arr(<<>>), Arr(<<Null>>), Arr(<<Obj(<<>>)>>),
           Obj(<<P(K_text, Str(<<"1", "7", "0", "0", "0", "0", "0", "0", "0", "0">>))>>) }

DateRecords == { DateRecord(x) : x \in DateValues }

InitDate ==
    /\ tRecord \in DateRecords
    /\ tIndex \in 0..MaxIndex
    /\ tOut = NotCalled
    /\ InitServerIdle
    /\ InitClientIdle

SpecDate == InitDate /\ [][NextTransform]_vars

-----------------------------------------------------------------------------
(* The customer-data endpoint: GET (route.ts 402-494)                      *)

\* line 186-191
RequiredEnv == {"FEISHU_APP_ID", "FEISHU_APP_SECRET", "FEISHU_APP_TOKEN", "FEISHU_TABLE_ID"}

\* a configuration check that looks at the app id only
getMissingAppIdOnly(e) == {"FEISHU_APP_ID"} \ e

\* getMissingEnvVars (route.ts 185-194)
getMissingEnvVars(e) == RequiredEnv \ e

NoDebug == [present |-> FALSE, failed |-> <<>>]

\* the error responses of lines 411-418 and 485-492: an error string, an empty
\* customers list and zeroed stats
ErrorResponse(status, error) ==
    [status |-> status, error |-> error, customers |-> <<>>,
     stats |-> [total |-> 0, totalVolume |-> 0], debug |-> NoDebug]

\* line 461: Object.keys(f.raw?.fields || {})
RawKeys(raw) == ObjectKeys(OrElse(OptGet(raw, K_fields), Obj(<<>>)))

\* a preview of every field of the record
PreviewAllKeys(keys) == keys

\* line 463: keys.slice(0, 8), the fields the preview is built from (lines
\* 462-472); the preview is held as the list of its keys, the text shown for
\* each key is left out
PreviewKeys(keys) == SubSeq(keys, 1, IF Len(keys) < 8 THEN Len(keys) ELSE 8)

\* lines 459-477: one diagnostic entry per rejected record
DebugBlock(fs) ==
    [present |-> TRUE,
     failed |-> [j \in 1..Len(fs) |->
                   [index |-> fs[j].index, id |-> fs[j].id, reason |-> fs[j].reason,
                    keys |-> RawKeys(fs[j].raw),
                    preview |-> PreviewKeys(RawKeys(fs[j].raw))]]]

\* lines 450-481
SuccessResponse(cs, fs, dbg) ==
    [status |-> 200, error |-> "none", customers |-> cs,
     stats |-> [total |-> Len(cs), totalVolume |-> 0],
     debug |-> IF dbg THEN DebugBlock(fs) ELSE NoDebug]

\* the raw records the modelled upstream serves
GoodRecord == CoordRecord(<<"3", "4", ".", "7", "6", ",", "1", "1", "3", ".", "6", "5">>)
NamelessRecord == RecordOf(Undef, Undef, Undef, Str(Txt113c35), <<>>)
\* a record with a record_id and nine fields, none of them a name
WideRecord ==
    RecordOf(Str(<<"r", "e", "c", "1">>), Undef, Undef, Str(Txt113c35),
             <<P(K_product, Str(TxtA)), P(K_discount, IntNum(7)), P(K_distributor, Str(TxtB)),
               P(K_district, Null), P(K_province, Str(<<"S", "D">>)),
               P(K_weidu, IntNum(35)), P(K_jingdu, IntNum(113))>>)
UpstreamRecords == { Null, GoodRecord, NamelessRecord, WideRecord }


RECURSIVE SeqsUpTo(_, _)
\* the sequences over S of length at most n
SeqsUpTo(S, n) ==
    IF n = 0 THEN { <<>> }
    ELSE LET shorter == SeqsUpTo(S, n - 1)
         IN shorter \cup { Append(q, x) : q \in { r \in shorter : Len(r) = n - 1 }, x \in S }

\* the `items` a listing page may carry: absent, or a list of raw records
PageItems == {Undef} \cup { Arr(q) : q \in SeqsUpTo(UpstreamRecords, MaxPageItems) }

\* continuation tokens the upstream may return ("" or absent: no more pages)
PageTokens == { <<>>, <<"t", "1">>, <<"t", "2">> }

\* a call to the upstream with its answer: the token call (lines 200-211) and
\* a listing call (lines 232-242) that sent the page token `sent`
TokenCall(code) ==
    [kind |-> "token", sent |-> <<>>, code |-> code, items |-> Undef, next |-> <<>>]
ListCall(sent, code, items, next) ==
    [kind |-> "list", sent |-> sent, code |-> code, items |-> items, next |-> next]

InitTransformIdle == tRecord = Null /\ tIndex = 0 /\ tOut = NotCalled

InitGet ==
    /\ pc = "start"
    /\ env \in SUBSET RequiredEnv
    /\ debugFlag \in BOOLEAN
    /\ pageToken = <<>> /\ listCalls = 0 /\ records = <<>> /\ i = 0
    /\ srvCustomers = <<>> /\ failed = <<>> /\ resp = NoResponse /\ calls = <<>>
    /\ InitTransformIdle
    /\ InitClientIdle

\* lines 407-419: the configuration check
GetCheckEnv ==
    /\ pc = "start"
    /\ IF getMissingEnvVars(env) # {}
       THEN pc' = "done" /\ resp' = ErrorResponse(400, "MissingEnv")
       ELSE pc' = "token" /\ UNCHANGED resp
    /\ UNCHANGED <<env, debugFlag, pageToken, listCalls, records, i, srvCustomers, failed, calls>>
    /\ UNCHANGED <<tvars, cvars, mvars, avars, pvars>>

\* getAccessToken (route.ts 199-218) answered by the upstream with `code`
GetAccessToken(code) ==
    /\ pc = "token"
    /\ IF code # 0
       THEN pc' = "done" /\ resp' = ErrorResponse(500, "TokenFailed")
       ELSE pc' = "list" /\ UNCHANGED resp
    /\ calls' = Append(calls, TokenCall(code))
    /\ UNCHANGED <<env, debugFlag, pageToken, listCalls, records, i, srvCustomers, failed>>
    /\ UNCHANGED <<tvars, cvars, mvars, avars, pvars>>

\* variant of AppendItems: only the latest page's items are kept
KeepLatestItems(all, items) == IF Truthy(items) THEN items.v ELSE <<>>

\* lines 248-250: a page's items are appended to the records fetched so far
AppendItems(all, items) == IF Truthy(items) THEN all \o items.v ELSE all

\* variant of ListIteration: a failed page ends the loop with what was fetched
ListIterationTolerant(all, code, items, next) ==
    IF code # 0
    THEN [threw |-> FALSE, records |-> all, pageToken |-> <<>>]
    ELSE [threw |-> FALSE, records |-> AppendItems(all, items), pageToken |-> next]

\* the body of the do-while of getTableRecords (route.ts 232-252) for a page
\* answered with `code`, `items` (undefined when absent) and the token `next`
ListIteration(all, code, items, next) ==
    IF code # 0
    THEN [threw |-> TRUE, records |-> all, pageToken |-> <<>>]
    ELSE [threw |-> FALSE, records |-> AppendItems(all, items), pageToken |-> next]

\* one iteration of the do-while of getTableRecords (route.ts 231-254): a
\* listing call that sends the current page token; the loop goes on while the
\* new token is non-empty, and an error thrown is caught at line 483
ListPage(code, items, next) ==
    /\ pc = "list"
    /\ listCalls < MaxPages
    /\ listCalls' = listCalls + 1
    /\ calls' = Append(calls, ListCall(pageToken, code, items, next))
    /\ \E it \in {ListIteration(records, code, items, next)} :
          IF it.threw
          THEN /\ pc' = "done"
               /\ resp' = ErrorResponse(500, "ListFailed")
               /\ UNCHANGED <<records, pageToken>>
          ELSE /\ records' = it.records
               /\ pageToken' = it.pageToken
               /\ pc' = IF it.pageToken # <<>> THEN "list" ELSE "transform"
               /\ UNCHANGED resp
    /\ UNCHANGED <<env, debugFlag, i, srvCustomers, failed>>
    /\ UNCHANGED <<tvars, cvars, mvars, avars, pvars>>

\* one iteration of the loop of lines 438-446; a TypeError thrown by
\* transformRecord is caught at line 483
TransformStep ==
    /\ pc = "transform"
    /\ i < Len(records)
    /\ \E out \in {transformRecord(records[i + 1], i)} :
          IF out.tag = "throw"
          THEN /\ pc' = "done"
               /\ resp' = ErrorResponse(500, "TypeError")
               /\ UNCHANGED <<i, srvCustomers, failed>>
          ELSE IF out.result # Null
          THEN /\ srvCustomers' = Append(srvCustomers, out.result)
               /\ i' = i + 1
               /\ UNCHANGED <<pc, resp, failed>>
          ELSE /\ failed' = Append(failed,
                                [index |-> i, id |-> OptGet(records[i + 1], K_record_id),
                                 reason |-> out.reason, raw |-> records[i + 1]])
               /\ i' = i + 1
               /\ UNCHANGED <<pc, resp, srvCustomers>>
    /\ UNCHANGED <<env, debugFlag, pageToken, listCalls, records, calls>>
    /\ UNCHANGED <<tvars, cvars, mvars, avars, pvars>>

\* lines 448-481: the loop is over, the success response is sent
GetRespond ==
    /\ pc = "transform"
    /\ i = Len(records)
    /\ pc' = "done"
    /\ resp' = SuccessResponse(srvCustomers, failed, debugFlag)
    /\ UNCHANGED <<env, debugFlag, pageToken, listCalls, records, i, srvCustomers, failed, calls>>
    /\ UNCHANGED <<tvars, cvars, mvars, avars, pvars>>

NextGet ==
    \/ GetCheckEnv
    \/ \E code \in {0, 1} : GetAccessToken(code)
    \/ \E next \in PageTokens, items \in PageItems : ListPage(0, items, next)
    \/ ListPage(1, Undef, <<>>)
    \/ TransformStep
    \/ GetRespond

SpecGet == InitGet /\ [][NextGet]_vars

-----------------------------------------------------------------------------
(* The CustomerMap client component: data load and the filter effect       *)

\* 雕牌, 白猫, 其他 and the "all" entry 全部品牌 (part_000 line 199)
TxtDiaopai == <<"u96d5", "u724c">>
TxtBaimao == <<"u767d", "u732b">>
TxtQita == <<"u5176", "u4ed6">>
TxtAllBrands == <<"u5168", "u90e8", "u54c1", "u724c">>
BRANDS == <<TxtAllBrands, TxtDiaopai, TxtBaimao, TxtQita>>

\* 长三角省区, 山东省区, 广东省区 and the "all" entry 全部省区 (part_000 line 202)
TxtYangtze == <<"u957f", "u4e09", "u89d2", "u7701", "u533a">>
TxtShandong == <<"u5c71", "u4e1c", "u7701", "u533a">>
TxtGuangdong == <<"u5e7f", "u4e1c", "u7701", "u533a">>
TxtAllRegions == <<"u5168", "u90e8", "u7701", "u533a">>
REGIONS == <<TxtAllRegions, TxtYangtze, TxtShandong, TxtGuangdong>>

\* 、 and ， (the half-width comma is ",")
EnumComma == "u3001"
FullComma == "uff0c"

\* text || dflt
TextOrElse(a, b) == IF a # <<>> THEN a ELSE b

\* lines 471-486: one record of the response, normalised to CustomerData.
\* c is a canonical record as the customer-data endpoint serves it: its id is
\* always truthy (the Math.random() fallback stands as one fixed text) and its
\* address is a string. The fields of CustomerData that no served record
\* carries and the filter effect never reads are left out.
NormalizeCustomer(c) ==
    [id |-> OrElse(c.id, Str(<<"0", ".", "5">>)),
     name |-> TextOrElse(c.name, <<>>),
     coordinates |-> c.coordinates,
     productName |-> TextOrElse(c.productName, TxtUnknown),
     address |-> OrElse(c.address, Str(<<>>)).v,
     brand |-> TextOrElse(TextOrElse(c.brand, c.distributor), <<>>),
     discountprice |-> TextOrElse(c.discountprice, <<>>),
     record_date |-> OrElse(c.record_date, Null),
     distributor |-> TextOrElse(c.distributor, <<>>),
     region |-> TextOrElse(c.region, <<>>),
     district |-> TextOrElse(c.district, <<>>)]

\* lines 515-528: the search predicate on one record
MatchesQuery(customer, query) ==
    \/ Includes(ToLower(TextOrElse(customer.name, <<>>)), query)
    \/ Includes(ToLower(TextOrElse(customer.productName, <<>>)), query)
    \/ Includes(ToLower(TextOrElse(customer.brand, <<>>)), query)
    \/ Includes(ToLower(TextOrElse(customer.address, <<>>)), query)

\* line 511: `searchQuery.trim()` is truthy
SearchActive(q) == Trim(q) # <<>>

\* variant of SearchStage: an empty query matches nothing
SearchStageEmptyMatchesNone(list, q) ==
    SelectSeq(list, LAMBDA c : q # <<>> /\ MatchesQuery(c, ToLower(q)))

\* lines 511-530
SearchStage(list, q) ==
    IF SearchActive(q)
    THEN SelectSeq(list, LAMBDA c : MatchesQuery(c, ToLower(q)))
    ELSE list

\* Array.prototype.includes on a list of texts
ListIncludes(list, x) == \E j \in 1..Len(list) : list[j] = x

\* variant of RegionActive: the region stage filters even with nothing selected
RegionAlwaysActive(rf) == TRUE

\* line 533: `regionFilter.length > 0`
RegionActive(rf) == Len(rf) > 0

RECURSIVE RecordsByRegion(_, _)
\* the records of each selected region in turn
RecordsByRegion(list, rf) ==
    IF rf = <<>> THEN <<>>
    ELSE SelectSeq(list, LAMBDA c : TextOrElse(c.region, <<>>) = rf[1])
            \o RecordsByRegion(list, Tail(rf))

\* variant of RegionStage: the result grouped in the order of selection
RegionStageBySelection(list, rf) ==
    IF RegionActive(rf) THEN RecordsByRegion(list, rf) ELSE list

\* lines 533-538
RegionStage(list, rf) ==
    IF RegionActive(rf)
    THEN SelectSeq(list, LAMBDA c : ListIncludes(rf, TextOrElse(c.region, <<>>)))
    ELSE list

\* [、,，]
IsBrandDelimiter(ch) == ch \in {EnumComma, ",", FullComma}

RECURSIVE SplitBrand(_, _)
\* String.prototype.split(/[、,，]/): cur is the piece being read
SplitBrand(s, cur) ==
    IF s = <<>> THEN <<cur>>
    ELSE IF IsBrandDelimiter(s[1]) THEN <<cur>> \o SplitBrand(Tail(s), <<>>)
    ELSE SplitBrand(Tail(s), Append(cur, s[1]))

\* line 544: the trimmed non-empty brand names of a record
customerBrands(c) ==
    LET pieces == SplitBrand(TextOrElse(c.brand, <<>>), <<>>)
    IN DropEmpty([j \in 1..Len(pieces) |-> Trim(pieces[j])])

\* line 541: `brandFilter.length > 0`
BrandActive(bf) == Len(bf) > 0

\* variant of BrandStage: a record must carry every selected brand
BrandStageEvery(list, bf) ==
    IF BrandActive(bf)
    THEN SelectSeq(list, LAMBDA c :
             \A j \in 1..Len(bf) : ListIncludes(customerBrands(c), bf[j]))
    ELSE list

\* lines 541-548
BrandStage(list, bf) ==
    IF BrandActive(bf)
    THEN SelectSeq(list, LAMBDA c :
             \E j \in 1..Len(bf) : ListIncludes(customerBrands(c), bf[j]))
    ELSE list

\* an incremental filter effect: unless the record set changed it narrows the
\* list that is visible now
FilterEffectIncremental(cs, q, rf, bf) ==
    BrandStage(RegionStage(SearchStage(IF cs = customers THEN filteredCustomers ELSE cs, q), rf), bf)

\* the filter effect (part_000 507-551): the value handed to setFilteredCustomers
FilterEffect(cs, q, rf, bf) == BrandStage(RegionStage(SearchStage(cs, q), rf), bf)

\* a toggle that never deselects
ToggleAppends(prev, x) == Append(prev, x)

\* lines 193-195 and 914-916: toggle one option of a multi-select
Toggle(prev, x) ==
    IF ListIncludes(prev, x) THEN SelectSeq(prev, LAMBDA y : y # x) ELSE Append(prev, x)

\* canonical records the endpoint may serve: transformRecord's results for raw
\* records with the given name, product, brand, address, distributor and region
ServedCustomer(idx, name, product, brand, address, distributor, region) ==
    transformRecord(
        MakeObj(<<P(K_fields, MakeObj(<<
            P(K_store, Str(name)), P(K_product, Str(product)), P(K_brand, Str(brand)),
            P(K_storeLocation,
              PoiShopLoc(Obj(<<P(K_location, Str(Txt113c35)), P(K_fullAddress, Str(address))>>))),
            P(K_distributor, Str(distributor)), P(K_province, Str(region))>>))>>),
        idx).result

ServedCustomers ==
    { ServedCustomer(0, TxtA, <<>>, TxtDiaopai \o <<EnumComma>> \o TxtBaimao,
                     <<"A", " ", "b">>, <<>>, TxtYangtze),
      ServedCustomer(1, TxtB, <<"S", "o", "a", "p">>,
                     <<" ">> \o TxtBaimao \o <<" ", FullComma>> \o TxtQita \o <<",">>,
                     <<>>, <<>>, TxtShandong),
      ServedCustomer(2, <<"b", " ", "c">>, <<>>, <<>>, <<"S", "h">>, TxtQita, <<>>) }

\* the `customers` lists a response may carry
ServedLists == SeqsUpTo(ServedCustomers, MaxCustomers)

\* what the user may type into the search box: a core, padded with white space
QueryCores == { <<>>, <<"C", "O">>, <<"b", " ", "c">> }
QueryPads == { <<<<>>, <<>>>>, <<<<" ">>, <<>>>>, <<<<>>, <<" ">>>> }
Queries == { pad[1] \o core \o pad[2] : core \in QueryCores, pad \in QueryPads }

\* a marker object: the record it was built for (line 355) and the stamp of
\* the run of the marker effect that constructed it (line 413). Every run
\* first detaches all the objects of the run before (lines 333-336, 347-350),
\* so two stamps tell the objects of consecutive runs apart.
Marker(customer, batch) == [customer |-> customer, batch |-> batch]

\* lines 330-338: nothing is constructed when the map is not ready or no
\* record is visible
MarkersSkipped(ready, fc) == ~ready \/ fc = <<>>

\* a marker effect that leaves the markers alone when it constructs nothing
RunMarkerEffectKeepOnSkip(ready, fc) ==
    /\ markerBatch' = IF MarkersSkipped(ready, fc) THEN markerBatch ELSE 1 - markerBatch
    /\ markers' = IF MarkersSkipped(ready, fc) THEN markers
                  ELSE [k \in 1..Len(fc) |-> Marker(fc[k], markerBatch')]

\* the marker effect (lines 329-431) for the visible list fc: markersRef
\* after the run
RunMarkerEffect(ready, fc) ==
    /\ markerBatch' = IF MarkersSkipped(ready, fc) THEN markerBatch ELSE 1 - markerBatch
    /\ markers' = IF MarkersSkipped(ready, fc) THEN <<>>
                  ELSE [k \in 1..Len(fc) |-> Marker(fc[k], markerBatch')]

InitClient ==
    /\ loading = TRUE
    /\ customers = <<>> /\ filteredCustomers = <<>>
    /\ searchQuery = <<>> /\ regionFilter = <<>> /\ brandFilter = <<>>
    /\ InitMapIdle /\ InitAiIdle /\ InitPostIdle
    /\ InitTransformIdle
    /\ InitServerIdle

\* the load effect (459-503) with a response that carries `customers`: both
\* lists are set to the normalised records, then the filter effect runs on the
\* new customers
LoadData(served) ==
    /\ loading
    /\ loading' = FALSE
    /\ customers' = [j \in 1..Len(served) |-> NormalizeCustomer(served[j])]
    /\ filteredCustomers' = FilterEffect(customers', searchQuery, regionFilter, brandFilter)
    /\ UNCHANGED <<searchQuery, regionFilter, brandFilter>>
    /\ RunMarkerEffect(mapReady, filteredCustomers')
    /\ UNCHANGED <<mapReady, tvars, svars, avars, pvars>>

\* the load effect when the fetch fails or the response has no `customers`
LoadNothing ==
    /\ loading
    /\ loading' = FALSE
    /\ UNCHANGED <<customers, filteredCustomers, searchQuery, regionFilter, brandFilter>>
    /\ UNCHANGED <<tvars, svars, mvars, avars, pvars>>

\* the search box's onChange (line 734), then the filter effect
ChangeSearch(q) ==
    /\ ~loading
    /\ q # searchQuery
    /\ searchQuery' = q
    /\ filteredCustomers' = FilterEffect(customers, q, regionFilter, brandFilter)
    /\ UNCHANGED <<loading, customers, regionFilter, brandFilter>>
    /\ RunMarkerEffect(mapReady, filteredCustomers')
    /\ UNCHANGED <<mapReady, tvars, svars, avars, pvars>>

\* a region button's onClick (lines 910-918), then the filter effect
ClickRegion(region) ==
    /\ ~loading
    /\ regionFilter' = IF region = TxtAllRegions THEN <<>> ELSE Toggle(regionFilter, region)
    /\ filteredCustomers' = FilterEffect(customers, searchQuery, regionFilter', brandFilter)
    /\ UNCHANGED <<loading, customers, searchQuery, brandFilter>>
    /\ RunMarkerEffect(mapReady, filteredCustomers')
    /\ UNCHANGED <<mapReady, tvars, svars, avars, pvars>>

\* a brand button's onClick (lines 940-946), then the filter effect
ClickBrand(brand) ==
    /\ ~loading
    /\ brandFilter' = IF brand = TxtAllBrands THEN <<>> ELSE Toggle(brandFilter, brand)
    /\ filteredCustomers' = FilterEffect(customers, searchQuery, regionFilter, brandFilter')
    /\ UNCHANGED <<loading, customers, searchQuery, regionFilter>>
    /\ RunMarkerEffect(mapReady, filteredCustomers')
    /\ UNCHANGED <<mapReady, tvars, svars, avars, pvars>>

\* the map initialisation effect (lines 208-323) completes: setMapReady(true)
\* at line 308, then the marker effect runs for the new mapReady
MapLoaded ==
    /\ ~loading /\ ~mapReady
    /\ mapReady' = TRUE
    /\ RunMarkerEffect(TRUE, filteredCustomers)
    /\ UNCHANGED <<cvars, tvars, svars, avars, pvars>>

NextClient ==
    \/ \E served \in ServedLists : LoadData(served)
    \/ LoadNothing
    \/ \E q \in Queries : ChangeSearch(q)
    \/ \E j \in 1..Len(REGIONS) : ClickRegion(REGIONS[j])
    \/ \E j \in 1..Len(BRANDS) : ClickBrand(BRANDS[j])

SpecClient == InitClient /\ [][NextClient]_vars

\* the searches typed while the map is shown
MapQueries == { <<>>, <<"C", "O">> }

\* the component with its map: the data loads, the map initialises, and the
\* filters are used
NextMap ==
    \/ \E served \in ServedLists : LoadData(served)
    \/ LoadNothing
    \/ MapLoaded
    \/ \E q \in MapQueries : ChangeSearch(q)
    \/ \E j \in 1..Len(REGIONS) : ClickRegion(REGIONS[j])
    \/ \E j \in 1..Len(BRANDS) : ClickBrand(BRANDS[j])

SpecMap == InitClient /\ [][NextMap]_vars

-----------------------------------------------------------------------------
(* The AI analysis dialog of CustomerMap (part_000 581-678, 777-788, 842-897) *)

\* how many AI requests one run may issue
MaxRequests == 3

\* aiMeta: null, or the total shown with the analysis
NoMeta == [present |-> FALSE, total |-> 0]

\* A request is known by its number, the position in `requests`; its summary
\* text, when the endpoint returns one, is written as that number (aiText = 0 is
\* the empty text). abortControllerRef holds the number of the request whose
\* controller it refers to, 0 for null.
\*   phase    "fetch": awaiting fetch (line 593); "body": awaiting res.json()
\*            (line 609); then the branch its continuation took: "ready"
\*            (633-638), "empty" (640-641), "failed" (652-655), "cancelled" (648-651)
\*   aborted  controller.signal.aborted
\*   closed   the dialog was closed since the request was issued
\*   stale    when the continuation wrote the AI state, a later request had been
\*            issued or the dialog had been closed
NewRequest(total) ==
    [phase |-> "fetch", ok |-> FALSE, aborted |-> FALSE, total |-> total,
     closed |-> FALSE, stale |-> FALSE]

InFlight(r) == requests[r].phase \in {"fetch", "body"}

\* the state the continuations of sendFilteredToFeishu write
AiState ==
    [feishuStatus |-> feishuStatus, feishuError |-> feishuError, aiStatus |-> aiStatus,
     aiText |-> aiText, aiError |-> aiError, aiMeta |-> aiMeta, timers |-> timers]

SetAiState(st) ==
    /\ feishuStatus' = st.feishuStatus /\ feishuError' = st.feishuError
    /\ aiStatus' = st.aiStatus /\ aiText' = st.aiText /\ aiError' = st.aiError
    /\ aiMeta' = st.aiMeta /\ timers' = st.timers

\* lines 632-645: the response was ok; the summary is shown, or its absence
\* reported, and the status-reset timer is started
AfterOk(st, r, hasSummary) ==
    IF hasSummary
    THEN [st EXCEPT !.aiText = r, !.aiMeta = [present |-> TRUE, total |-> requests[r].total],
                    !.aiStatus = "ready", !.feishuStatus = "success", !.timers = @ + 1]
    ELSE [st EXCEPT !.aiStatus = "error", !.aiError = "NoResult",
                    !.feishuStatus = "success", !.timers = @ + 1]

\* lines 652-655: the catch block for an error that is no AbortError
AfterError(st, message) ==
    [st EXCEPT !.feishuStatus = "error", !.feishuError = message,
               !.aiStatus = "error", !.aiError = message]

\* lines 609-645 and 646-655 once res.json() has settled: hasData tells whether
\* the parsed body carries the summary (ok) or the error text (not ok)
AfterBody(st, r, hasData) ==
    IF requests[r].ok THEN AfterOk(st, r, hasData)
    ELSE AfterError(st, IF hasData THEN "ServerError" ELSE "SendFailed")

BodyPhase(r, hasData) ==
    IF ~requests[r].ok THEN "failed" ELSE IF hasData THEN "ready" ELSE "empty"

\* whether a write of request r now comes after a later request or a close
IsStale(r) == r # Len(requests) \/ requests[r].closed

\* an AI button that also clears the region selection before it sends
ClickAiClearsRegions ==
    /\ ~loading
    /\ feishuStatus # "sending"
    /\ Len(requests) < MaxRequests
    /\ aiOpen' = TRUE
    /\ requests' = Append(requests, NewRequest(Len(filteredCustomers)))
    /\ abortControllerRef' = Len(requests) + 1
    /\ feishuStatus' = "sending" /\ feishuError' = "" /\ aiStatus' = "loading"
    /\ regionFilter' = <<>>
    /\ filteredCustomers' = FilterEffect(customers, searchQuery, <<>>, brandFilter)
    /\ UNCHANGED <<aiText, aiError, aiMeta, timers>>
    /\ UNCHANGED <<loading, customers, searchQuery, brandFilter>>
    /\ UNCHANGED <<tvars, svars, mvars, pvars>>

\* the AI button's onClick (lines 778-783) and sendFilteredToFeishu up to its
\* await (lines 581-607). The button is enabled whenever feishuStatus is not
\* "sending" (line 787); it stays reachable from the keyboard while the
\* dialog's overlay (line 844) covers it.
ClickAi ==
    /\ ~loading
    /\ feishuStatus # "sending"
    /\ Len(requests) < MaxRequests
    /\ aiOpen' = TRUE
    /\ requests' = Append(requests, NewRequest(Len(filteredCustomers)))
    /\ abortControllerRef' = Len(requests) + 1
    /\ feishuStatus' = "sending" /\ feishuError' = "" /\ aiStatus' = "loading"
    /\ UNCHANGED <<aiText, aiError, aiMeta, timers>>
    /\ UNCHANGED <<tvars, svars, cvars, mvars, pvars>>

\* fetch resolves with the response's status line (line 593); nothing is
\* written until the body has been read
HeadersArrive(r, ok) ==
    /\ r \in 1..Len(requests) /\ requests[r].phase = "fetch"
    /\ requests' = [requests EXCEPT ![r].phase = "body", ![r].ok = ok]
    /\ UNCHANGED <<feishuStatus, feishuError, aiOpen, aiStatus, aiText, aiError, aiMeta,
                   abortControllerRef, timers>>
    /\ UNCHANGED <<tvars, svars, cvars, mvars, pvars>>

\* fetch rejects with a network error (line 593): catch and finally
FetchFails(r) ==
    /\ r \in 1..Len(requests) /\ requests[r].phase = "fetch"
    /\ SetAiState(AfterError(AiState, "NetworkError"))
    /\ requests' = [requests EXCEPT ![r].phase = "failed", ![r].stale = IsStale(r)]
    /\ abortControllerRef' = 0
    /\ UNCHANGED aiOpen
    /\ UNCHANGED <<tvars, svars, cvars, mvars, pvars>>

\* res.json() settles (line 609; a body that is no JSON reads as {}), then
\* lines 610-645 or the catch block, then finally (line 657)
BodyArrives(r, hasData) ==
    /\ r \in 1..Len(requests) /\ requests[r].phase = "body"
    /\ SetAiState(AfterBody(AiState, r, hasData))
    /\ requests' = [requests EXCEPT ![r].phase = BodyPhase(r, hasData),
                                    ![r].stale = IsStale(r)]
    /\ abortControllerRef' = 0
    /\ UNCHANGED aiOpen
    /\ UNCHANGED <<tvars, svars, cvars, mvars, pvars>>

\* the timer of line 645 fires
TimerFires ==
    /\ timers > 0
    /\ timers' = timers - 1
    /\ feishuStatus' = "idle"
    /\ UNCHANGED <<feishuError, aiOpen, aiStatus, aiText, aiError, aiMeta,
                   abortControllerRef, requests>>
    /\ UNCHANGED <<tvars, svars, cvars, mvars, pvars>>

\* controller.abort() of request r while awaiting res.json(): the read
\* rejects with an AbortError, which the catch of line 609 turns into {}
AfterAbortedRead(st, r) == AfterBody(st, r, FALSE)

\* what the continuation of the aborted request r writes on top of st. While
\* fetch is awaited the AbortError reaches the catch block, which returns
\* (lines 648-651).
AfterAbort(st, r) ==
    IF requests[r].phase = "fetch" THEN st ELSE AfterAbortedRead(st, r)

\* lines 668-669: what cancelAiAnalysis sets
Cancelled == [AiState EXCEPT !.feishuStatus = "idle", !.aiStatus = "idle"]

\* the requests after the dialog was closed and the controller of request r
\* (0: none) was aborted (line 664)
RequestsAfterClose(r) ==
    [q \in 1..Len(requests) |->
        IF q = r
        THEN [requests[q] EXCEPT
                !.aborted = TRUE,
                !.phase = IF @ = "fetch" THEN "cancelled" ELSE BodyPhase(r, FALSE),
                !.stale = requests[r].phase = "body"]
        ELSE IF InFlight(q) THEN [requests[q] EXCEPT !.closed = TRUE]
        ELSE requests[q]]

\* cancelAiAnalysis (lines 662-670). The continuation of the aborted request
\* runs as soon as the handler returns, on top of the values the handler set.
CancelAiAnalysis ==
    /\ SetAiState(IF abortControllerRef = 0 THEN Cancelled
                  ELSE AfterAbort(Cancelled, abortControllerRef))
    /\ requests' = RequestsAfterClose(abortControllerRef)
    /\ abortControllerRef' = 0

\* closeAiDialog (lines 673-678), the onClick of the dialog's overlay and of
\* its close button
CloseAiDialog ==
    /\ aiOpen
    /\ aiOpen' = FALSE
    /\ IF aiStatus = "loading" \/ feishuStatus = "sending"
       THEN CancelAiAnalysis
       ELSE /\ requests' = RequestsAfterClose(0)
            /\ UNCHANGED <<feishuStatus, feishuError, aiStatus, aiText, aiError, aiMeta,
                           abortControllerRef, timers>>
    /\ UNCHANGED <<tvars, svars, cvars, mvars, pvars>>

\* the component from its first render: the data loads, then the AI button
\* and the dialog are used
NextAi ==
    \/ \E served \in ServedLists : LoadData(served)
    \/ LoadNothing
    \/ ClickAi
    \/ \E r \in 1..MaxRequests, ok \in BOOLEAN : HeadersArrive(r, ok)
    \/ \E r \in 1..MaxRequests : FetchFails(r)
    \/ \E r \in 1..MaxRequests, hasData \in BOOLEAN : BodyArrives(r, hasData)
    \/ TimerFires
    \/ CloseAiDialog

SpecAi == InitClient /\ [][NextAi]_vars

\* the regions clicked before and between AI requests
AiRegions == { TxtAllRegions, TxtShandong }

\* the component with a region filter in use around its AI requests
NextAiFiltered ==
    \/ \E served \in ServedLists : LoadData(served)
    \/ LoadNothing
    \/ \E region \in AiRegions : ClickRegion(region)
    \/ ClickAi
    \/ \E r \in 1..MaxRequests, ok \in BOOLEAN : HeadersArrive(r, ok)
    \/ \E r \in 1..MaxRequests : FetchFails(r)
    \/ \E r \in 1..MaxRequests, hasData \in BOOLEAN : BodyArrives(r, hasData)
    \/ TimerFires
    \/ CloseAiDialog

SpecAiFiltered == InitClient /\ [][NextAiFiltered]_vars

-----------------------------------------------------------------------------
(* Ranked aggregations: the analysis endpoint POST (route.ts 46-93) and the  *)
(* client's stats.topProducts (part_000 563-576)                             *)

\* how many records one tabulated request body carries
MaxTabulated == 3

\* a property key that JavaScript treats as an array index: the canonical
\* decimal text of an integer (keys of more than 9 digits are left out of the
\* model's inputs)
IsArrayIndex(k) ==
    /\ k # <<>> /\ Len(k) <= 9
    /\ \A j \in 1..Len(k) : IsDigit(k[j])
    /\ (Len(k) = 1 \/ k[1] # "0")

\* whether the entry e is enumerated before a new key k: array-index keys come
\* first, in ascending numeric order, and the other keys follow in the order
\* of their creation
EnumeratedBefore(e, k) ==
    IF IsArrayIndex(k)
    THEN IsArrayIndex(e.key) /\ DigitsValue(e.key) < DigitsValue(k)
    ELSE TRUE

\* count[k] = (count[k] || 0) + 1 (route.ts 58-60, part_000 568) on an object
\* held as the list Object.entries(count) enumerates
Increment(count, k) ==
    IF \E j \in 1..Len(count) : count[j].key = k
    THEN [j \in 1..Len(count) |->
            IF count[j].key = k THEN [key |-> k, n |-> count[j].n + 1] ELSE count[j]]
    ELSE SelectSeq(count, LAMBDA e : EnumeratedBefore(e, k))
         \o <<[key |-> k, n |-> 1]>>
         \o SelectSeq(count, LAMBDA e : ~EnumeratedBefore(e, k))

RECURSIVE CountOf(_)
\* the forEach loop (route.ts 52-64, part_000 566-569) over the keys of the
\* records, in input order
CountOf(keys) ==
    IF keys = <<>> THEN <<>>
    ELSE Increment(CountOf(SubSeq(keys, 1, Len(keys) - 1)), keys[Len(keys)])

RECURSIVE SortByCount(_)
\* entries.sort((a, b) => b[1] - a[1]): Array.prototype.sort is stable, so an
\* entry stays behind the earlier entries of the same count
SortByCount(entries) ==
    IF entries = <<>> THEN <<>>
    ELSE LET e == entries[Len(entries)]
             done == SortByCount(SubSeq(entries, 1, Len(entries) - 1))
         IN SelectSeq(done, LAMBDA d : d.n >= e.n) \o <<e>>
            \o SelectSeq(done, LAMBDA d : d.n < e.n)

\* .slice(0, 5)
TopFive(entries) == SubSeq(entries, 1, IF Len(entries) < 5 THEN Len(entries) ELSE 5)

\* the key `customer.f || "未知"` is used as (route.ts 53-55)
KeyOrUnknown(v) == JSString(OrElse(v, Str(TxtUnknown)))

\* route.ts 52-64: the three count objects after the forEach loop
BrandCount(body) == CountOf([j \in 1..Len(body) |-> KeyOrUnknown(body[j].brand)])
ProductCount(body) == CountOf([j \in 1..Len(body) |-> KeyOrUnknown(body[j].productName)])
ProvinceCount(body) == CountOf([j \in 1..Len(body) |-> KeyOrUnknown(body[j].province)])

\* route.ts 46-93: the count objects and the three ranked lists the prompt is
\* built from
Tabulation(body) ==
    [called |-> TRUE,
     brandCount |-> BrandCount(body),
     productCount |-> ProductCount(body),
     provinceCount |-> ProvinceCount(body),
     brands |-> SortByCount(BrandCount(body)),
     products |-> TopFive(SortByCount(ProductCount(body))),
     provinces |-> SortByCount(ProvinceCount(body))]

\* part_000 563-576: stats.topProducts of the visible list
TopProducts(fc) ==
    TopFive(SortByCount(CountOf([j \in 1..Len(fc) |-> TextOrElse(fc[j].productName, TxtUnknown)])))

\* brand and product of the records of a request body: absent, empty, names,
\* and names made of digits
BrandsAndProducts ==
    { <<Str(TxtDiaopai), Undef>>, <<Str(TxtDiaopai), Str(<<>>)>>,
      <<Str(<<"2">>), Str(<<"S", "o", "a", "p">>)>>,
      <<Undef, Str(<<"1", "0">>)>>, <<Str(TxtDiaopai), Str(<<"2">>)>> }

\* their region as the client's records carry it (part_000 484), or a
\* `province` as another caller may send it
RegionsAndProvinces ==
    { <<Str(<<>>), Undef>>, <<Str(TxtShandong), Undef>>, <<Undef, Str(<<"1", "0">>)>> }

\* the records of a request body
BodyCustomers ==
    { [brand |-> bp[1], productName |-> bp[2], region |-> rp[1], province |-> rp[2]] :
        bp \in BrandsAndProducts, rp \in RegionsAndProvinces }

\* the customers arrays of the modelled request bodies
PostBodies == SeqsUpTo(BodyCustomers, MaxTabulated)

InitPost ==
    /\ postBody \in PostBodies
    /\ postOut = NoTabulation
    /\ InitTransformIdle /\ InitServerIdle
    /\ loading = TRUE /\ customers = <<>> /\ filteredCustomers = <<>>
    /\ searchQuery = <<>> /\ regionFilter = <<>> /\ brandFilter = <<>>
    /\ InitMapIdle /\ InitAiIdle

\* POST tabulates the body's customers (route.ts 46-64) and ranks them (77-93)
CallTabulation ==
    /\ ~postOut.called
    /\ postOut' = Tabulation(postBody)
    /\ UNCHANGED <<postBody, tvars, svars, cvars, mvars, avars>>

NextPost == CallTabulation

SpecPost == InitPost /\ [][NextPost]_vars

-----------------------------------------------------------------------------
(* Claims C1 - C7: record transformation and the transformation driver      *)

\* the GET run reached the transformation loop and has ended
LoopEnded == pc = "done" /\ resp.error \notin {"MissingEnv", "TokenFailed", "ListFailed"}

\* the records transformRecord turns into a canonical record
IsAccepted(record, index) == transformRecord(record, index).result # Null

InLatRange(d) == DecGe(d, LatMin) /\ DecLe(d, LatMax)
InLngRange(d) == DecGe(d, LngMin) /\ DecLe(d, LngMax)

\* C1: for every sequence of fetched raw records, once the GET loop over
\* transformRecord is over every input index has exactly one outcome: it is the
\* index of exactly one entry of failed or it accounts for one accepted record,
\* and |accepted| + |rejected| = |input|.
C1_OneOutcomePerRecord ==
    LoopEnded =>
        /\ Len(srvCustomers) + Len(failed) = Len(records)
        /\ \A idx \in 0..(Len(records) - 1) :
              Cardinality({ j \in 1..Len(failed) : failed[j].index = idx })
                  = IF IsAccepted(records[idx + 1], idx) THEN 0 ELSE 1

\* C2: transformRecord returns a canonical record if and only if the resolved
\* name is non-empty and a coordinate source was resolved and parsed into a pair
\* of finite numbers; in every other case it returns a rejection with a reason
\* and no record.
C2_RecordIffNameAndCoords ==
    (tOut # NotCalled /\ ~Nullish(tRecord)) =>
        LET fields == FieldsOf(tRecord)
            raw == ResolveCoordsRaw(fields)
            m == CoordMatch(JSString(raw))
            validPair == Truthy(raw) /\ m.ok /\ ParseFloat(m.g1).ok /\ ParseFloat(m.g2).ok
        IN /\ tOut.tag = "return"
           /\ (tOut.result # Null) <=> (ResolveName(fields) # <<>> /\ validPair)
           /\ tOut.result # Null => tOut.reason = NoReason /\ tOut.result.name # <<>>
           /\ tOut.result = Null =>
                 tOut.reason.kind \in {"NoName", "NoCoordField", "Unparseable", "NotANumber"}

\* C2 witness: a call that returned a record and (in another run) one that
\* rejected a named record for its coordinates
C2_Witness ==
    /\ tOut.tag = "return" /\ tOut.result = Null
    /\ tOut.reason.kind = "Unparseable"
    /\ ResolveName(FieldsOf(tRecord)) # <<>>

\* C3: for every coordinate string holding two numbers a, b, one in [18,54] and
\* the other in [73,135], the resolved (lng, lat) has the [73,135] number as lng
\* and the [18,54] number as lat, and the strings "a,b" and "b,a" resolve alike.
C3_AxisOrderResolved ==
    LET sl == Get(FieldsOf(tRecord), K_storeLocation)
    IN (tOut # NotCalled /\ ~Nullish(tRecord) /\ sl.t = "string"
        /\ tRecord = CoordRecord(sl.v)) =>
        \A a \in { n \in Numerals : InLatRange(n.val) },
           b \in { n \in Numerals : InLngRange(n.val) },
           sep \in CoordSeps, w \in CoordWraps :
            sl.v \in {CoordText(a, sep, b, w), CoordText(b, sep, a, w)} =>
                /\ tOut.result # Null
                /\ tOut.result.coordinates = <<b.val, a.val>>
                /\ transformRecord(CoordRecord(CoordText(a, sep, b, w)), tIndex) = tOut
                /\ transformRecord(CoordRecord(CoordText(b, sep, a, w)), tIndex) = tOut

\* C3 witness: the latitude-first string "34.76,113.65" was transformed
C3_Witness ==
    /\ tOut # NotCalled
    /\ tRecord = CoordRecord(<<"3", "4", ".", "7", "6", ",", "1", "1", "3", ".", "6", "5">>)
    /\ tOut.result # Null

\* C4 as stated: every accepted record has its longitude in [73,135] and its
\* latitude in [18,54]; no record whose numbers fall outside is accepted.
C4_AcceptedInRange ==
    (tOut # NotCalled /\ tOut.result # Null) =>
        /\ InLngRange(tOut.result.coordinates[1])
        /\ InLatRange(tOut.result.coordinates[2])

\* C4 amended: every accepted record carries the two parsed (finite) numbers;
\* when one lies in [18,54] and the other in [73,135] the longitude is the
\* [73,135] one and the latitude the [18,54] one; otherwise the two numbers are
\* kept in input order, unvalidated.
C4_AcceptedPairBestEffort ==
    (tOut # NotCalled /\ tOut.result # Null) =>
        LET m == CoordMatch(JSString(ResolveCoordsRaw(FieldsOf(tRecord))))
            a == ParseFloat(m.g1)
            b == ParseFloat(m.g2)
            lng == tOut.result.coordinates[1]
            lat == tOut.result.coordinates[2]
            plausible == \/ InLatRange(a.d) /\ InLngRange(b.d)
                         \/ InLngRange(a.d) /\ InLatRange(b.d)
        IN /\ m.ok /\ a.ok /\ b.ok
           /\ {lng, lat} = {a.d, b.d}
           /\ plausible => InLngRange(lng) /\ InLatRange(lat)
           /\ ~plausible => lng = a.d /\ lat = b.d

\* C4 witness: a record whose numbers lie outside both ranges was accepted
C4_Witness ==
    /\ tOut # NotCalled /\ tOut.result # Null
    /\ ~InLngRange(tOut.result.coordinates[1])
    /\ ~InLatRange(tOut.result.coordinates[2])

\* C5: for every raw record in which neither 门店 nor 客户企业名称 yields
\* non-empty text, transformRecord returns the "missing name" rejection and no
\* record, whatever the other fields hold.
C5_MissingNameRejected ==
    (tOut # NotCalled /\ ~Nullish(tRecord)
     /\ readAsText(Get(FieldsOf(tRecord), K_store)) = <<>>
     /\ readAsText(Get(FieldsOf(tRecord), K_company)) = <<>>) =>
        tOut = Reject("NoName", <<>>)

\* C5 witness: a nameless record that carries a usable location was transformed
C5_Witness ==
    /\ tOut # NotCalled /\ ~Nullish(tRecord)
    /\ readAsText(Get(FieldsOf(tRecord), K_store)) = <<>>
    /\ readAsText(Get(FieldsOf(tRecord), K_company)) = <<>>
    /\ Get(FieldsOf(tRecord), K_storeLocation) = Str(Txt35c113)

\* C7: no single raw record, however malformed (a null record included), makes
\* transformRecord throw or the batch abort: once the records are fetched the
\* driver processes every one of them and answers 200 with the well-formed ones.
C7_NoRecordAbortsBatch ==
    LoopEnded =>
        /\ resp.status = 200
        /\ i = Len(records)
        /\ resp.customers = srvCustomers
        /\ \A idx \in 0..(Len(records) - 1) :
              transformRecord(records[idx + 1], idx).tag = "return"

-----------------------------------------------------------------------------
(* Claims C8 - C10: the filter effect of the CustomerMap component          *)

\* the search predicate on one record: an absent query admits every record
SearchPredicate(c, q) == Trim(q) = <<>> \/ MatchesQuery(c, ToLower(q))

\* the region predicate and the brand predicate on one record
RegionPredicate(c, rf) == rf = <<>> \/ \E j \in 1..Len(rf) : rf[j] = c.region
BrandPredicate(c, bf) ==
    bf = <<>> \/ \E j \in 1..Len(bf), k \in 1..Len(customerBrands(c)) : bf[j] = customerBrands(c)[k]

\* C8: when no region and no brand is selected, the visible records are exactly
\* the loaded records that satisfy the search predicate, in their loaded order;
\* with an empty search query that is every loaded record.
C8_NoSelectionMeansSearchOnly ==
    (~loading /\ regionFilter = <<>> /\ brandFilter = <<>>)
        => /\ filteredCustomers = SelectSeq(customers, LAMBDA c : SearchPredicate(c, searchQuery))
           /\ (searchQuery = <<>> => filteredCustomers = customers)

\* C8's case: nothing selected, two records loaded, and a search that admits
\* one of them
C8_Witness ==
    /\ ~loading /\ regionFilter = <<>> /\ brandFilter = <<>>
    /\ Trim(searchQuery) # <<>>
    /\ Len(customers) = 2 /\ Len(filteredCustomers) = 1

\* C9: with an empty search query the visible records are exactly the loaded
\* records that satisfy the region predicate and the brand predicate.
C9_EmptySearchMeansSelectionOnly ==
    (~loading /\ searchQuery = <<>>)
        => filteredCustomers =
             SelectSeq(customers,
                       LAMBDA c : RegionPredicate(c, regionFilter) /\ BrandPredicate(c, brandFilter))

\* C9's case: an empty query, a region and a brand selected, two records
\* loaded and one of them visible
C9_Witness ==
    /\ ~loading /\ searchQuery = <<>>
    /\ regionFilter # <<>> /\ brandFilter # <<>>
    /\ Len(customers) = 2 /\ Len(filteredCustomers) = 1

\* C10: the search query is trimmed before matching: the visible records for
\* a query are those for the same query without its leading and trailing white
\* space, and a query of white space alone hides no record on its own.
C10_QueryTrimmedBeforeMatching ==
    ~loading
        => filteredCustomers =
             FilterEffect(customers, Trim(searchQuery), regionFilter, brandFilter)

-----------------------------------------------------------------------------
(* Claims C11, C12: composition and order of the filter effect              *)

\* C11: a loaded record is visible iff it passes the search predicate and
\* (no region is selected or its region is selected) and (no brand is selected
\* or one of its brand names, split on the three delimiters, trimmed, empty
\* ones dropped, is selected); nothing else is visible.
C11_VisibleIffAllPredicates ==
    ~loading =>
        /\ \A j \in 1..Len(customers) :
              (\E k \in 1..Len(filteredCustomers) : filteredCustomers[k] = customers[j])
                 <=> /\ SearchPredicate(customers[j], searchQuery)
                     /\ RegionPredicate(customers[j], regionFilter)
                     /\ BrandPredicate(customers[j], brandFilter)
        /\ \A k \in 1..Len(filteredCustomers) :
              \E j \in 1..Len(customers) : customers[j] = filteredCustomers[k]

\* C11's case: a query, a region selection and two selected brands are all in
\* force, and of two loaded records exactly one is visible
C11_Witness ==
    /\ ~loading /\ Trim(searchQuery) # <<>>
    /\ regionFilter # <<>> /\ Len(brandFilter) = 2
    /\ Len(customers) = 2 /\ Len(filteredCustomers) = 1

RECURSIVE IsSubsequence(_, _)
\* a is b with some items left out
IsSubsequence(a, b) ==
    IF a = <<>> THEN TRUE
    ELSE IF b = <<>> THEN FALSE
    ELSE IF a[1] = b[1] THEN IsSubsequence(Tail(a), Tail(b))
    ELSE IsSubsequence(a, Tail(b))

\* no two items of the list have the same id
DistinctIds(list) ==
    \A j, k \in 1..Len(list) : j # k => list[j].id # list[k].id

\* C12: the visible list is a subsequence of the loaded list: every visible
\* record is a loaded one, in the loaded order, and no record is visible more
\* often than it was loaded.
C12_VisibleIsSubsequence ==
    ~loading =>
        /\ IsSubsequence(filteredCustomers, customers)
        /\ (DistinctIds(customers) => DistinctIds(filteredCustomers))

\* C12's case: two regions were selected in the order opposite to that of the
\* two loaded records, and both records are visible
C12_Witness ==
    /\ ~loading /\ Len(customers) = 2 /\ Len(filteredCustomers) = 2
    /\ Len(regionFilter) = 2
    /\ customers[1].region = regionFilter[2] /\ customers[2].region = regionFilter[1]

-----------------------------------------------------------------------------
(* Claim C13: date normalisation                                            *)

\* the date field of the record handed to transformRecord
DateFieldOf(record) == Get(FieldsOf(record), K_recordDate)

\* x holds a whole number (as a number, its text, or a one-item array of
\* either) that is at least 1e8 and below 1e11: a seconds value whose
\* thousandfold is at least 1e11
IsSecondsInput(x) ==
    CASE x.t = "string" ->
            /\ x.v # <<>> /\ \A j \in 1..Len(x.v) : IsDigit(x.v[j])
            /\ x.v[1] # "0" /\ Len(x.v) >= 9 /\ Len(x.v) <= 11
      [] x.t = "number" ->
            /\ x.v.m > 0 /\ x.v.e <= 0
            /\ Len(NumToText(x.v)) >= 9 /\ Len(NumToText(x.v)) <= 11
      [] OTHER -> FALSE

\* the same input, one thousand times larger
Thousandfold(x) ==
    IF x.t = "string" THEN Str(x.v \o <<"0", "0", "0">>) ELSE Num(x.v.m, x.v.e - 3)

\* the date a record with date field x is given
DateGiven(x, index) == transformRecord(DateRecord(x), index).result.record_date

\* C13: a whole number s with 1e8 <= s < 1e11 is read as epoch seconds and its
\* thousandfold as epoch milliseconds, so both are given the same calendar
\* date (1700000000 and 1700000000000 both give 2023-11-14); the same holds
\* when the value arrives as the only item of an array.
C13_SecondsAndMillisAgree ==
    tOut # NotCalled =>
        LET x == DateFieldOf(tRecord)
            item == IF x.t = "array" /\ Len(x.v) = 1 THEN x.v[1] ELSE x
        IN IsSecondsInput(item) =>
              /\ tOut.result.record_date # Null
              /\ tOut.result.record_date =
                    DateGiven(IF x.t = "array" THEN Arr(<<Thousandfold(item)>>)
                              ELSE Thousandfold(item), tIndex)
              /\ (JSString(item) = <<"1", "7", "0", "0", "0", "0", "0", "0", "0", "0">>
                    => tOut.result.record_date
                         = Str(<<"2", "0", "2", "3", "-", "1", "1", "-", "1", "4">>))

\* C13's case: the record with the date 1e8 (whose thousandfold is exactly
\* 1e11) was transformed and given the date 1973-03-03
C13_Witness ==
    /\ tOut # NotCalled
    /\ DateFieldOf(tRecord) = Str(<<"1", "0", "0", "0", "0", "0", "0", "0", "0">>)
    /\ tOut.result.record_date = Str(<<"1", "9", "7", "3", "-", "0", "3", "-", "0", "3">>)

-----------------------------------------------------------------------------
(* Claims C14, C15: the paged fetch and its failures                        *)

\* the listing calls made so far, in the order they were made
ListingCalls == SelectSeq(calls, LAMBDA c : c.kind = "list")

\* getTableRecords has returned its records to GET
FetchReturned == pc = "transform" \/ (pc = "done" /\ resp.error \in {"none", "TypeError"})

RECURSIVE ItemsInPageOrder(_)
\* the items of the given pages, one page after the other
ItemsInPageOrder(pages) ==
    IF pages = <<>> THEN <<>>
    ELSE (IF pages[1].items.t = "array" THEN pages[1].items.v ELSE <<>>)
            \o ItemsInPageOrder(Tail(pages))

\* C14: when the fetch has returned after n successful pages, exactly n
\* listing calls were made, every page but the last carried a continuation
\* token and the last carried none, the first call sent no token and every
\* later call sent the token the page before it returned, and the records
\* returned are the pages' items in page order.
C14_PagesFetchedInOrder ==
    FetchReturned =>
        LET pages == ListingCalls
            n == Len(pages)
        IN /\ n >= 1 /\ listCalls = n
           /\ \A k \in 1..n : pages[k].code = 0
           /\ \A k \in 1..(n - 1) : pages[k].next # <<>>
           /\ pages[n].next = <<>>
           /\ pages[1].sent = <<>>
           /\ \A k \in 2..n : pages[k].sent = pages[k - 1].next
           /\ records = ItemsInPageOrder(pages)

\* C14's case: two pages, each with an item, the first with a token, and the
\* fetch has returned both items
C14_Witness ==
    /\ FetchReturned
    /\ Len(ListingCalls) = 2
    /\ ListingCalls[1].next = <<"t", "2">>
    /\ ListingCalls[1].items = Arr(<<GoodRecord>>)
    /\ ListingCalls[2].items = Arr(<<NamelessRecord>>)
    /\ Len(records) = 2

\* C15: once the token call or any listing call is answered with a non-zero
\* code, the run is over with status 500, an error, no customers and zeroed
\* stats; no record was transformed and none of the records fetched from
\* earlier pages is in the response.
C15_UpstreamFailureAborts ==
    (\E k \in 1..Len(calls) : calls[k].code # 0) =>
        /\ pc = "done"
        /\ resp.status = 500 /\ resp.error \in {"TokenFailed", "ListFailed"}
        /\ resp.customers = <<>>
        /\ resp.stats = [total |-> 0, totalVolume |-> 0]
        /\ ~resp.debug.present
        /\ i = 0 /\ srvCustomers = <<>> /\ failed = <<>>

\* C15's case: the second page failed after a first page that carried a good
\* record
C15_Witness ==
    /\ Len(ListingCalls) = 2
    /\ ListingCalls[1].items = Arr(<<GoodRecord>>)
    /\ ListingCalls[2].code # 0
    /\ records = <<GoodRecord>>
    /\ pc = "done" /\ resp.status = 500

-----------------------------------------------------------------------------
(* Claim C16: ranked aggregations                                           *)

\* the keys the tabulation of field values vs counts, in input order
KeysOf(vs) == [j \in 1..Len(vs) |-> KeyOrUnknown(vs[j])]

\* where the key k is first encountered in the input
FirstAt(keys, k) == CHOOSE j \in 1..Len(keys) : keys[j] = k /\ \A h \in 1..(j - 1) : keys[h] # k

\* entries of equal count are listed in the order of their first encounter
TiesInInputOrder(ranked, keys) ==
    \A a, b \in 1..Len(ranked) :
        (a < b /\ ranked[a].n = ranked[b].n)
            => FirstAt(keys, ranked[a].key) < FirstAt(keys, ranked[b].key)

\* the visible list of the client whose JSON is the request body
ClientListOf(body) ==
    [j \in 1..Len(body) |->
        [productName |-> IF body[j].productName.t = "string" THEN body[j].productName.v
                         ELSE <<>>]]

\* C16 (as stated): in the brand, product and province lists of the prompt and
\* in the client's top-5 products, two values of equal count are listed in the
\* order in which the input first shows them, whatever the value strings are.
C16_TiesInFirstEncounterOrder ==
    postOut.called =>
        /\ TiesInInputOrder(postOut.brands,
                            KeysOf([j \in 1..Len(postBody) |-> postBody[j].brand]))
        /\ TiesInInputOrder(postOut.products,
                            KeysOf([j \in 1..Len(postBody) |-> postBody[j].productName]))
        /\ TiesInInputOrder(postOut.provinces,
                            KeysOf([j \in 1..Len(postBody) |-> postBody[j].province]))
        /\ TiesInInputOrder(TopProducts(ClientListOf(postBody)),
                            KeysOf([j \in 1..Len(postBody) |-> postBody[j].productName]))

-----------------------------------------------------------------------------
(* Claims C17 - C19: cancellation of the AI request                         *)

\* the requests whose continuation has written the AI state
Wrote(r) == requests[r].phase \in {"ready", "empty", "failed"}

\* C17 (as stated): a request that was aborted before it completed writes
\* none of aiText, aiMeta, aiStatus, aiError, feishuStatus and feishuError when
\* it resolves: its continuation takes the branch that only returns.
C17_AbortedRequestIsSilent ==
    \A r \in 1..Len(requests) :
        requests[r].aborted => requests[r].phase = "cancelled"

\* the requests that are in flight and not aborted
Active == { r \in 1..Len(requests) : InFlight(r) /\ ~requests[r].aborted }

\* C18 (as stated): whatever the order of clicks on the AI button, response
\* arrivals, cancellations and status-reset timers, at most one request is in
\* flight and not aborted.
C18_AtMostOneActiveRequest == Cardinality(Active) <= 1

\* C19 (as stated): a request still in flight is the one issued last and the
\* dialog has not been closed since, and no request that was left un-aborted
\* writes the AI state after a later request was issued or after the dialog
\* was closed.
C19_NoStaleOverwrite ==
    \A r \in 1..Len(requests) :
        /\ (InFlight(r) => r = Len(requests) /\ ~requests[r].closed)
        /\ (Wrote(r) /\ ~requests[r].aborted => ~requests[r].stale)

-----------------------------------------------------------------------------
(* Claim C20: markers across a recomputation of the visible list            *)

\* the record of marker mk is visible in the list fc
StillVisible(mk, fc) == \E j \in 1..Len(fc) : fc[j].id = mk.customer.id

\* C20 (as stated): when the visible list is recomputed, the marker of every
\* record whose id is in the previous and in the new visible list is left
\* untouched: the same marker object is attached afterwards, it is neither
\* detached nor replaced by a newly constructed one.
C20_PersistingMarkersUntouched ==
    [][\A k \in 1..Len(markers) :
          StillVisible(markers[k], filteredCustomers')
              => \E h \in 1..Len(markers') : markers'[h] = markers[k]]_vars

-----------------------------------------------------------------------------
(* Claim C21: markers and the visible list                                  *)

\* the records the attached markers were built for, in list order
MarkedRecords == [k \in 1..Len(markers) |-> markers[k].customer]

\* C21: once the map is ready, after every run of the marker effect the
\* attached markers correspond one to one to the records of the visible list:
\* the k-th marker was built for the k-th visible record, so every visible
\* record has exactly one marker and no marker belongs to a record outside the
\* list; all of them were constructed by the latest run.
C21_MarkersMatchVisible ==
    /\ mapReady =>
        /\ MarkedRecords = filteredCustomers
        /\ \A k \in 1..Len(markers) : markers[k].batch = markerBatch
    /\ ~mapReady => markers = <<>>

\* the map is ready, a search and a region selection are in force, and one of
\* two loaded records is visible and marked
C21_Witness ==
    /\ mapReady /\ Len(customers) = 2 /\ Len(markers) = 1
    /\ searchQuery # <<>> /\ regionFilter # <<>>

-----------------------------------------------------------------------------
(* Claim C22: missing configuration                                         *)

\* C22: when one of the four required identifiers is missing, the endpoint's
\* answer is 400 with an error string, an empty customers list and zeroed
\* stats, and neither the token call nor a listing call is ever made; no
\* other run answers 400.
C22_MissingConfigAnswers400 ==
    /\ (RequiredEnv \ env # {} /\ pc # "start") =>
          /\ pc = "done"
          /\ resp.status = 400 /\ resp.error # "none"
          /\ resp.customers = <<>>
          /\ resp.stats = [total |-> 0, totalVolume |-> 0]
          /\ ~resp.debug.present
    /\ RequiredEnv \ env # {} => calls = <<>> /\ listCalls = 0
    /\ resp.status = 400 => RequiredEnv \ env # {}

\* a run that lacks only the table id has been answered
C22_Witness ==
    /\ env = RequiredEnv \ {"FEISHU_TABLE_ID"}
    /\ pc = "done" /\ resp.status = 400

-----------------------------------------------------------------------------
(* Claim C23: the debug block of the success response                       *)

\* the indexes (from 0) of the fetched records that transformRecord rejects
RejectedIndexes ==
    SelectSeq([k \in 1..Len(records) |-> k - 1],
              LAMBDA idx : ~IsAccepted(records[idx + 1], idx))

IsPrefix(p, q) == Len(p) <= Len(q) /\ p = SubSeq(q, 1, Len(p))

\* C23: the success response carries a debug block exactly when the debug flag
\* is set. When present, the block lists one entry per rejected record, in
\* input order, with the record's index, the reason of its rejection and a
\* preview of its first fields, at most 8 of them; when absent, the response
\* carries nothing about the rejections.
C23_DebugBlockIffFlag ==
    (pc = "done" /\ resp.status = 200) =>
        /\ resp.debug.present <=> debugFlag
        /\ debugFlag =>
              /\ Len(resp.debug.failed) = Len(RejectedIndexes)
              /\ \A j \in 1..Len(resp.debug.failed) :
                    /\ resp.debug.failed[j].index = RejectedIndexes[j]
                    /\ resp.debug.failed[j].reason
                         = transformRecord(records[RejectedIndexes[j] + 1],
                                           RejectedIndexes[j]).reason
                    /\ Len(resp.debug.failed[j].preview) <= 8
                    /\ IsPrefix(resp.debug.failed[j].preview,
                                RawKeys(records[RejectedIndexes[j] + 1]))
                    /\ Len(resp.debug.failed[j].preview) = 8
                         \/ resp.debug.failed[j].preview
                              = RawKeys(records[RejectedIndexes[j] + 1])
        /\ ~debugFlag => resp.debug = NoDebug

\* a debug response for two rejected records, one of two fields and one of
\* nine fields whose preview stops at the eighth
C23_Witness ==
    /\ pc = "done" /\ resp.status = 200 /\ debugFlag
    /\ records = <<NamelessRecord, WideRecord>>
    /\ Len(resp.debug.failed) = 2
    /\ Len(resp.debug.failed[1].preview) = 2
    /\ Len(resp.debug.failed[2].keys) = 9 /\ Len(resp.debug.failed[2].preview) = 8

-----------------------------------------------------------------------------
(* Claim C24: the tabulations of the analysis endpoint                      *)

\* the count a count object holds for the key k (0 when it has no such key)
CountFor(count, k) ==
    IF \E j \in 1..Len(count) : count[j].key = k
    THEN count[CHOOSE j \in 1..Len(count) : count[j].key = k].n
    ELSE 0

RECURSIVE SumOfCounts(_)
SumOfCounts(count) ==
    IF count = <<>> THEN 0 ELSE count[1].n + SumOfCounts(Tail(count))

\* the count object holds, for every value, the number of records of vs with
\* that value (absent and empty values under "未知"), and nothing else
CountsEachValue(count, vs) ==
    /\ \A j \in 1..Len(vs) :
          CountFor(count, KeyOrUnknown(vs[j]))
              = Cardinality({ h \in 1..Len(vs) : KeyOrUnknown(vs[h]) = KeyOrUnknown(vs[j]) })
    /\ SumOfCounts(count) = Len(vs)

\* a record as the client sends it: a region and no province (part_000 470-486)
IsCanonicalBody == \A j \in 1..Len(postBody) : postBody[j].province = Undef

\* C24 (as stated): for a list of canonical customer records the region
\* tabulation counts every record under its own region (an empty region under
\* "未知"), the brand and product tabulations do the same for brand and
\* product, and the counts of each tabulation add up to the number of records.
C24_TabulationsCountOwnValues ==
    (postOut.called /\ IsCanonicalBody) =>
        /\ CountsEachValue(postOut.provinceCount,
                           [j \in 1..Len(postBody) |-> postBody[j].region])
        /\ CountsEachValue(postOut.brandCount,
                           [j \in 1..Len(postBody) |-> postBody[j].brand])
        /\ CountsEachValue(postOut.productCount,
                           [j \in 1..Len(postBody) |-> postBody[j].productName])

-----------------------------------------------------------------------------
(* Claim C25: termination of the listing loop                               *)

\* the do-while of getTableRecords is about to issue one more listing call
LoopWantsAnotherCall == pc = "list" /\ listCalls > 0 /\ pageToken # <<>>

\* C25 (as stated): the number of listing calls is capped, so the loop ends
\* even when every response carries a continuation token. The modelled
\* upstream answers MaxPages calls; a loop with a cap has ended by itself when
\* they are used up, whatever the answers were.
C25_ListingLoopCapped == listCalls = MaxPages => ~LoopWantsAnotherCall

-----------------------------------------------------------------------------
(* Claim C26: date-like text                                                *)

\* the whole text is an integer: digits only, after an optional sign, white
\* space around it aside
IsIntegerText(s) ==
    LET t == Trim(s)
        ds == IF t # <<>> /\ t[1] \in {"-", "+"} THEN Tail(t) ELSE t
    IN ds # <<>> /\ \A j \in 1..Len(ds) : IsDigit(ds[j])

\* what date-string parsing gives for the text s: its calendar date, or null
DateByParsing(s) ==
    IF ParseDateText(s).ok THEN Str(IsoDate(ParseDateText(s).days)) ELSE Null

\* C26 (as stated): a date field holding text that is not an integer as a
\* whole never takes the epoch branch: it is given the calendar date that
\* date-string parsing reads from it ("2024-01-15" gives 2024-01-15), or null
\* when it is no date.
C26_DateTextParsedAsDate ==
    tOut # NotCalled =>
        LET x == DateFieldOf(tRecord)
        IN (x.t = "string" /\ ~IsIntegerText(x.v))
              => tOut.result.record_date = DateByParsing(x.v)

-----------------------------------------------------------------------------
(* Claim C27: the order of the coordinate sources                           *)

\* what each of the three sources yields for the fields (undefined: nothing)
FromPoi(fields) == CoordsFromPoi(PoiOf(Get(fields, K_storeLocation)))
FromField(fields) ==
    IF Truthy(Get(fields, K_storeLocation))
    THEN CoordsFromShopLoc(Get(fields, K_storeLocation)) ELSE Undef
FromColumns(fields) == CoordsFromColumns(fields)

\* the first source, in the order poiInfo.location, location field, columns,
\* that yields something
FirstSource(fields) ==
    IF Truthy(FromPoi(fields)) THEN FromPoi(fields)
    ELSE IF Truthy(FromField(fields)) THEN FromField(fields)
    ELSE FromColumns(fields)

\* the outcome out is the one the coordinate text raw leads to: the pair
\* parsed from it, or the rejection that quotes it
OutcomeUses(out, raw) ==
    LET cm == CoordMatch(JSString(raw))
        a == ParseFloat(cm.g1)
        b == ParseFloat(cm.g2)
    IN IF ~cm.ok THEN out = Reject("Unparseable", JSString(raw))
       ELSE IF ~IsFinite(a) \/ ~IsFinite(b) THEN out = Reject("NotANumber", JSString(raw))
       ELSE /\ out.result # Null
            /\ out.result.coordinates
                 = <<Disambiguate(a.d, b.d).lng, Disambiguate(a.d, b.d).lat>>

\* C27: for a record with a name, the coordinates come from the first source
\* that yields something, in the order (1) non-blank poiInfo.location, (2) the
\* location field itself, (3) the latitude / longitude columns; a later source
\* is used only when the earlier ones yield nothing, and a record for which
\* none yields anything is rejected as missing its coordinate field.
C27_FirstSourceWins ==
    (tOut # NotCalled /\ ~Nullish(tRecord) /\ ~NameMissing(ResolveName(FieldsOf(tRecord)))) =>
        IF Truthy(FirstSource(FieldsOf(tRecord)))
        THEN OutcomeUses(tOut, FirstSource(FieldsOf(tRecord)))
        ELSE tOut = Reject("NoCoordField", <<>>)

\* a record whose poiInfo.location is "113,35", whose location field carries
\* its own location "abc" and which has latitude / longitude columns was
\* accepted with the coordinates of poiInfo.location
C27_Witness ==
    /\ tOut # NotCalled /\ ~Nullish(tRecord)
    /\ FromPoi(FieldsOf(tRecord)) = Str(Txt113c35)
    /\ FromField(FieldsOf(tRecord)) = Str(<<"a", "b", "c">>)
    /\ Truthy(FromColumns(FieldsOf(tRecord)))
    /\ FromColumns(FieldsOf(tRecord)) # Str(Txt113c35)
    /\ tOut.result # Null
    /\ tOut.result.coordinates = <<[m |-> 113, e |-> 0], [m |-> 35, e |-> 0]>>

-----------------------------------------------------------------------------
(* Claim C28: the filter effect recomputes the visible list from scratch    *)

\* the three predicates of the filter on one record, for a complete filter
\* state
PassesFilter(c, q, rf, bf) ==
    SearchPredicate(c, q) /\ RegionPredicate(c, rf) /\ BrandPredicate(c, bf)

\* C28: after every data load, search edit and region or brand click, once
\* the filter effect has run, the visible list is the filter applied to the
\* full loaded list and the current search query, region selection and brand
\* selection; it does not depend on earlier filter states or on the list that
\* was visible before.
C28_VisibleRecomputedFromScratch ==
    filteredCustomers =
        SelectSeq(customers,
                  LAMBDA c : PassesFilter(c, searchQuery, regionFilter, brandFilter))

\* C28's case: two brands are selected, the first carried by the second of
\* two loaded records only and the later one by the first record only, so the
\* later click widened the visible list, and both records are visible
C28_Witness ==
    /\ ~loading /\ Len(customers) = 2 /\ Len(brandFilter) = 2
    /\ ListIncludes(customerBrands(customers[2]), brandFilter[1])
    /\ ~ListIncludes(customerBrands(customers[1]), brandFilter[1])
    /\ ListIncludes(customerBrands(customers[1]), brandFilter[2])
    /\ ~ListIncludes(customerBrands(customers[2]), brandFilter[2])
    /\ searchQuery = <<" ">> /\ regionFilter = <<>>
    /\ filteredCustomers = customers

-----------------------------------------------------------------------------
(* Claim C29: what an AI request leaves alone                               *)

\* C29: every step of an AI request (its start, the arrival of its headers or
\* body, its failure, its cancellation, the closing of the dialog, the
\* status-reset timer) leaves the loaded records, the visible records, the
\* search query and the region and brand selections as they were, and the
\* loading flag and the map's markers with them; such a step changes only the
\* state of the AI dialog and of the send.
C29_AiStepsKeepDataAndFilters ==
    [][avars' # avars => UNCHANGED <<cvars, mvars>>]_vars

\* C29's case: with a region selected that hides one of two loaded records,
\* one request was cancelled, one failed and one delivered its summary
C29_Witness ==
    /\ Len(customers) = 2 /\ Len(filteredCustomers) = 1 /\ regionFilter # <<>>
    /\ Len(requests) = 3
    /\ \E r \in 1..3 : requests[r].phase = "cancelled"
    /\ \E r \in 1..3 : requests[r].phase = "failed"
    /\ \E r \in 1..3 : requests[r].phase = "ready"
    /\ aiStatus = "ready"

-----------------------------------------------------------------------------
(* Claim C30: the region and brand selections                               *)

\* the options a selection holds
Selected(list) == { list[j] : j \in 1..Len(list) }

\* no option occurs twice in the selection
NoDuplicates(list) == \A j, k \in 1..Len(list) : list[j] = list[k] => j = k

\* toggling any option of the list twice gives the selection sel again, as a
\* set
ToggleTwiceRestores(sel, options) ==
    \A j \in 2..Len(options) :
        Selected(Toggle(Toggle(sel, options[j]), options[j])) = Selected(sel)

\* C30: after every step the region selection and the brand selection hold no
\* option twice and never the "all" entry (the first of REGIONS and of
\* BRANDS); toggling any option twice from there gives the same set of
\* selected options again; and a click on the "all" entry leaves the
\* selection empty.
C30_SelectionsStayWellFormed ==
    [][/\ NoDuplicates(regionFilter') /\ NoDuplicates(brandFilter')
       /\ ~ListIncludes(regionFilter', TxtAllRegions)
       /\ ~ListIncludes(brandFilter', TxtAllBrands)
       /\ ToggleTwiceRestores(regionFilter', REGIONS)
       /\ ToggleTwiceRestores(brandFilter', BRANDS)
       /\ (ClickRegion(TxtAllRegions) => regionFilter' = <<>>)
       /\ (ClickBrand(TxtAllBrands) => brandFilter' = <<>>)]_vars

\* C30's case: all three regions are selected, the first region of the list
\* last, and two brands are selected with the earlier option of the list
\* coming second, as after deselecting and reselecting an option
C30_Witness ==
    /\ Len(regionFilter) = 3 /\ regionFilter[3] = REGIONS[2]
    /\ Len(brandFilter) = 2 /\ brandFilter = <<BRANDS[4], BRANDS[2]>>

====
